---- MODULE Spec2Model ----
(***************************************************************************)
(* Model of the weather-banner card's core:                                *)
(*   - the momentum drag-scroll engine (enableMomentumScroll), one engine  *)
(*     instance per attach, a registry (stateMap) keyed by the container,  *)
(*     the container's scroll position, classes and pointer capture, and   *)
(*     the browser's queue of animation-frame callbacks;                   *)
(*   - the hourly list's solar times per day, its night classifier and     *)
(*     its sun-event lookup, and the header's day/night decision.          *)
(*                                                                         *)
(* Units.  Positions are in 1/800 px, times in ms, velocities in           *)
(* 1/800 px per ms, so that the default options 0.005, 5 and 0.00375 are   *)
(* the integers 4, 4000 and 3 and every product the code forms is exact.   *)
(* Pointer coordinates (clientX) are in px.                                *)
(***************************************************************************)
EXTENDS Integers, Sequences, FiniteSets, TLC

\* ------------------------------------------------------------------------
\* Program constants
\* ------------------------------------------------------------------------
PosPerPx == 800
DRAG_ACTIVATION_THRESHOLD == 4
threshold == 4
maxVelocity == 4000
deceleration == 3
SettleTolerance == 400

\* ------------------------------------------------------------------------
\* Bounds
\* ------------------------------------------------------------------------
MaxInstances == 1

\* ------------------------------------------------------------------------
\* Inputs of the engine
\* ------------------------------------------------------------------------
Px(n) == n * PosPerPx

\* Three containers: forecast items overflowing the viewport, an overflowing
\* container in which nothing matches the snap selector, and one whose
\* content fits.  Item k starts 20 px after item k-1; the last scroll
\* position, 52 px, lies between two items and nearer to the later one.
Layouts ==
  { [scrollWidth |-> Px(142), clientWidth |-> Px(90),
     itemOffsets |-> <<0, Px(20), Px(40), Px(60), Px(80), Px(100), Px(120)>>],
    [scrollWidth |-> Px(142), clientWidth |-> Px(90), itemOffsets |-> <<>>],
    [scrollWidth |-> Px(40), clientWidth |-> Px(90),
     itemOffsets |-> <<0, Px(20)>>] }

\* Pointer positions 4 px apart, move events 0, 1 or 20 ms apart (or 20 ms
\* back, should the clock be set back) and frames 80 or 160 ms apart keep
\* every scroll position on a 4 px grid: a release
\* velocity is then a multiple of 0.05 px/ms, and so is what a frame takes
\* off it.
InitialScrolls == {0, Px(20)}
PointerIds == {1, 2}
MoveXs == {96, 92, 88}
FrameDts == {80, 160}
\* the grid: pointer positions are one activation threshold apart
GridPx == DRAG_ACTIVATION_THRESHOLD

NoTarget == -1

VARIABLES
  stateMap,     \* registry: 0, or the instance registered for the container
  listeners,    \* listeners[i]: instance i exists, its four listeners are on
  retired,      \* some instance has been cleaned up; its handle may linger
  drag,         \* drag[i]: state.drag of instance i
  frame,        \* frame[i]: state.momentumFrame (0 undefined, -1 fired)
  raf,          \* the browser's pending animation-frame callbacks
  scrollLeft,   \* container.scrollLeft
  classes,      \* container.classList, engine classes only
  capture,      \* pointer captured by the container, 0 if none
  smooth,       \* target of the browser's running smooth scroll, or NoTarget
  isConnected,  \* container.isConnected
  layout,       \* scrollWidth, clientWidth and the snap items' offsets
  last          \* what the operation that led here did (observer)

engineVars == <<stateMap, listeners, retired, drag, frame, raf, scrollLeft,
                classes, capture, smooth, isConnected, layout, last>>

VARIABLES
  forecast,       \* WFEHourlyList.forecast: items [datetime, is_daytime]
  sunCoordinates, \* WFEHourlyList.sunCoordinates: "absent", "nonfinite", "valid"
  showSunTimes,   \* WFEHourlyList.showSunTimes
  eph,            \* what SunCalc computes at the configured coordinates
  sunTimesByDay,  \* WFEHourlyList._sunTimesByDay
  rendered,       \* per forecast item: the sun marker and the night flag
  header,         \* the header's last day/night decision and its inputs
  probe           \* arguments and results of the classifiers applied alone

sunVars == <<forecast, sunCoordinates, showSunTimes, eph, sunTimesByDay,
             rendered, header>>

VARIABLES
  location,       \* the card's coordinate cache, its last result and inputs
  card            \* the card's rendered containers and their engines

cardVars == <<location, card>>

VARIABLE
  templates       \* the card's template chips, their values and subscriptions

vars == <<engineVars, sunVars, probe, cardVars, templates>>

\* what the engine's steps leave alone
otherVars == <<sunVars, probe, cardVars, templates>>

Instances == 1..MaxInstances

\* ------------------------------------------------------------------------
\* Arithmetic helpers (Math.*)
\* ------------------------------------------------------------------------
Abs(x) == IF x < 0 THEN -x ELSE x
Sign(x) == IF x > 0 THEN 1 ELSE IF x < 0 THEN -1 ELSE 0
Max(a, b) == IF a >= b THEN a ELSE b
Min(a, b) == IF a <= b THEN a ELSE b

\* ------------------------------------------------------------------------
\* The container
\* ------------------------------------------------------------------------
MaxScroll == layout.scrollWidth - layout.clientWidth

\* Element.scrollLeft keeps an assigned value inside the scrollable range
ScrollRangeMax == Max(0, MaxScroll)

createDragState ==
  [active |-> FALSE, pointerId |-> 0, startX |-> 0, scrollLeft |-> 0,
   lastScrollLeft |-> 0, velocity |-> 0, hasMoved |-> FALSE,
   captured |-> FALSE]

\* The mutable part of the program a handler works on
Quiet == [op |-> "other", handle |-> 0, info |-> "none"]

World ==
  [stateMap |-> stateMap, listeners |-> listeners, drag |-> drag,
   frame |-> frame, raf |-> raf, scrollLeft |-> scrollLeft,
   classes |-> classes, capture |-> capture, smooth |-> smooth,
   last |-> Quiet]

Note(w, op, i, info) ==
  [w EXCEPT !.last = [op |-> op, handle |-> i, info |-> info]]

Apply(w) ==
  /\ stateMap' = w.stateMap
  /\ listeners' = w.listeners
  /\ drag' = w.drag
  /\ frame' = w.frame
  /\ raf' = w.raf
  /\ scrollLeft' = w.scrollLeft
  /\ classes' = w.classes
  /\ capture' = w.capture
  /\ smooth' = w.smooth
  /\ last' = w.last

\* container.scrollLeft = x: an instant scroll, which ends a smooth scroll
SetScrollLeft(w, x) ==
  [w EXCEPT !.scrollLeft = Max(0, Min(x, ScrollRangeMax)),
            !.smooth = NoTarget]

\* container.scrollTo({left: x, behavior: "smooth"})
ScrollToSmooth(w, x) ==
  LET t == Max(0, Min(x, ScrollRangeMax))
  IN  [w EXCEPT !.smooth = IF t = w.scrollLeft THEN NoTarget ELSE t]

\* the pending callbacks of instance i among frames
FramesOf(frames, i) == {c \in frames : c.owner = i}

\* requestAnimationFrame(cb) for instance i; handles are reused once free
FreeHandle(w) ==
  CHOOSE h \in 1..(Cardinality(w.raf) + 1) :
    /\ \A c \in w.raf : c.id # h
    /\ \A g \in 1..(Cardinality(w.raf) + 1) :
         (g < h) => (\E c \in w.raf : c.id = g)

RequestFrame(w, i, kind, velocity, primed, target) ==
  LET h == FreeHandle(w)
  IN  [w EXCEPT !.raf = @ \cup {[id |-> h, owner |-> i, kind |-> kind,
                                 velocity |-> velocity, primed |-> primed,
                                 target |-> target]},
                !.frame[i] = h]

\* ------------------------------------------------------------------------
\* The engine's closures (instance i)
\* ------------------------------------------------------------------------
\* a cancelMomentumFrame that forgets the handle without cancelling the frame
cancelMomentumFrameNoCancel(w, i) ==
  IF w.frame[i] # 0 THEN [w EXCEPT !.frame[i] = 0] ELSE w

cancelMomentumFrame(w, i) ==
  IF w.frame[i] # 0
  THEN [w EXCEPT !.raf = {c \in @ : c.id # w.frame[i]}, !.frame[i] = 0]
  ELSE w

\* a stopMomentum that takes the classes off and leaves the frame pending
stopMomentumKeepsFrame(w, i) ==
  [w EXCEPT !.classes = @ \ {"momentum", "dragging"}]

stopMomentum(w, i) ==
  LET w1 == cancelMomentumFrame(w, i)
  IN  [w1 EXCEPT !.classes = @ \ {"momentum", "dragging"}]

\* index of the item whose left edge is closest to the content start; the
\* loop keeps the first of several equally close items
ClosestItem(w) ==
  LET offs == layout.itemOffsets
      Dist(k) == Abs((offs[k] - w.scrollLeft))
  IN  CHOOSE k \in 1..Len(offs) :
        /\ \A j \in 1..Len(offs) : Dist(k) <= Dist(j)
        /\ \A j \in 1..Len(offs) : (j < k) => Dist(j) > Dist(k)

AlignTarget(w) ==
  \* container.scrollLeft + (closest.getBoundingClientRect().left - alignStart)
  w.scrollLeft + (layout.itemOffsets[ClosestItem(w)] - w.scrollLeft)

\* the alignment target taken without clamping
UnclampedTarget(w) == AlignTarget(w)

\* const clampedTarget = Math.max(0, Math.min(target, maxScroll))
ClampedTarget(w) == Max(0, Min(AlignTarget(w), MaxScroll))

alignToNearestItem(w, i) ==
  LET w1 == cancelMomentumFrame(w, i)
  IN  IF Len(layout.itemOffsets) = 0
      THEN stopMomentum(w1, i)
      ELSE LET clampedTarget == ClampedTarget(w1)
           IN  IF Abs(w1.scrollLeft - clampedTarget) <= SettleTolerance
               THEN stopMomentum(SetScrollLeft(w1, clampedTarget), i)
               ELSE LET w2 == [w1 EXCEPT
                                 !.classes = (@ \cup {"momentum"}) \ {"dragging"}]
                        w3 == ScrollToSmooth(w2, clampedTarget)
                    IN  RequestFrame(w3, i, "settle", 0, FALSE, clampedTarget)

\* a release velocity taken as it is
ClampVelocityUnbounded(v) == v

ClampVelocity(v) ==
  IF Abs(v) > maxVelocity THEN Sign(v) * maxVelocity ELSE v

startMomentum(w, i, initialVelocity) ==
  IF MaxScroll <= 0
  THEN stopMomentum(w, i)
  ELSE LET w1 == stopMomentum(w, i)
           velocity == ClampVelocity(initialVelocity)
           w2 == [w1 EXCEPT !.classes = (@ \ {"dragging"}) \cup {"momentum"}]
       IN  RequestFrame(w2, i, "step", velocity, FALSE, NoTarget)

\* a frame callback that never takes anything off the velocity
stepWithoutDecay(w, c, dt) ==
  LET i == c.owner
  IN  IF ~isConnected
      THEN stopMomentum(Note(w, "step", i, "disconnected"), i)
      ELSE IF ~c.primed
      THEN RequestFrame(Note(w, "step", i, "first"), i, "step", c.velocity,
                        TRUE, NoTarget)
      ELSE LET w1 == SetScrollLeft(w, w.scrollLeft + c.velocity * dt)
               maxScrollable == MaxScroll
           IN  IF w1.scrollLeft <= 0 \/ w1.scrollLeft >= maxScrollable
               THEN alignToNearestItem(
                      SetScrollLeft(Note(w1, "step", i, "boundary"),
                                    Max(0, Min(w1.scrollLeft, maxScrollable))), i)
               ELSE RequestFrame(Note(w1, "step", i, "advance"), i,
                                 "step", c.velocity, TRUE, NoTarget)

\* the frame callback of a momentum run; c is the fired callback, dt the time
\* since the previous frame of the run
step(w, c, dt) ==
  LET i == c.owner
  IN  IF ~isConnected
      THEN stopMomentum(Note(w, "step", i, "disconnected"), i)
      ELSE IF ~c.primed
      THEN RequestFrame(Note(w, "step", i, "first"), i, "step", c.velocity,
                        TRUE, NoTarget)
      ELSE LET w1 == SetScrollLeft(w, w.scrollLeft + c.velocity * dt)
               maxScrollable == MaxScroll
           IN  IF w1.scrollLeft <= 0 \/ w1.scrollLeft >= maxScrollable
               THEN alignToNearestItem(
                      SetScrollLeft(Note(w1, "step", i, "boundary"),
                                    Max(0, Min(w1.scrollLeft, maxScrollable))), i)
               ELSE LET deltaV == deceleration * dt
                    IN  IF Abs(c.velocity) <= deltaV
                        THEN alignToNearestItem(
                               Note(w1, "step", i, "exhausted"), i)
                        ELSE RequestFrame(Note(w1, "step", i, "advance"), i,
                               "step", c.velocity - Sign(c.velocity) * deltaV,
                               TRUE, NoTarget)

\* the frame callback of an alignment
settle(w, c) ==
  LET i == c.owner
  IN  IF ~isConnected
      THEN stopMomentum(Note(w, "settle", i, "disconnected"), i)
      ELSE IF Abs(w.scrollLeft - c.target) <= SettleTolerance
      THEN stopMomentum(SetScrollLeft(Note(w, "settle", i, "done"), c.target), i)
      ELSE RequestFrame(Note(w, "settle", i, "waiting"), i, "settle", 0,
                        FALSE, c.target)

\* a pointer-down handler that starts the drag without stopping the run
onPointerDownKeepsRun(w, i, ev) ==
  IF ~isConnected
  THEN stopMomentum(w, i)
  ELSE IF ev.button # 0 THEN stopMomentum(w, i)
  ELSE IF ev.pointerType # "mouse" /\ ev.pointerType # "pen"
  THEN stopMomentum(w, i)
  ELSE IF MaxScroll <= 0 THEN stopMomentum(w, i)
  ELSE [Note(w, "down", i, IF FramesOf(w.raf, i) # {} THEN "interrupted"
                           ELSE "started")
          EXCEPT
            !.drag[i] = [active |-> TRUE, pointerId |-> ev.pointerId,
                         startX |-> ev.clientX,
                         scrollLeft |-> w.scrollLeft,
                         lastScrollLeft |-> w.scrollLeft,
                         velocity |-> 0, hasMoved |-> FALSE,
                         captured |-> FALSE],
            !.classes = @ \cup {"grabbing"}]

\* a pointer-down handler that takes any kind of pointer
onPointerDownAnyPointer(w, i, ev) ==
  IF ~isConnected
  THEN stopMomentum(w, i)
  ELSE LET w1 == stopMomentum(w, i)
       IN  IF ev.button # 0 THEN w1
           ELSE IF MaxScroll <= 0 THEN w1
           ELSE [Note(w1, "down", i,
                      IF FramesOf(w.raf, i) # {} THEN "interrupted"
                      ELSE "started")
                   EXCEPT
                   !.drag[i] = [active |-> TRUE, pointerId |-> ev.pointerId,
                                startX |-> ev.clientX,
                                scrollLeft |-> w1.scrollLeft,
                                lastScrollLeft |-> w1.scrollLeft,
                                velocity |-> 0, hasMoved |-> FALSE,
                                captured |-> FALSE],
                   !.classes = @ \cup {"grabbing"}]

\* the note tells whether the drag that starts found a frame pending
onPointerDown(w, i, ev) ==
  IF ~isConnected
  THEN stopMomentum(w, i)
  ELSE LET w1 == stopMomentum(w, i)
       IN  IF ev.button # 0 THEN w1
           ELSE IF ev.pointerType # "mouse" /\ ev.pointerType # "pen" THEN w1
           ELSE IF MaxScroll <= 0 THEN w1
           ELSE [Note(w1, "down", i,
                      IF FramesOf(w.raf, i) # {} THEN "interrupted"
                      ELSE "started")
                   EXCEPT
                   !.drag[i] = [active |-> TRUE, pointerId |-> ev.pointerId,
                                startX |-> ev.clientX,
                                scrollLeft |-> w1.scrollLeft,
                                lastScrollLeft |-> w1.scrollLeft,
                                velocity |-> 0, hasMoved |-> FALSE,
                                captured |-> FALSE],
                   !.classes = @ \cup {"grabbing"}]

\* TRUE when this move takes instance i's drag over the activation threshold
Activates(w, i, ev) ==
  /\ w.drag[i].active
  /\ ev.pointerId = w.drag[i].pointerId
  /\ ~w.drag[i].hasMoved
  /\ Abs(ev.clientX - w.drag[i].startX) > DRAG_ACTIVATION_THRESHOLD

\* a move handler that takes a sample without time for a standstill
onPointerMoveZeroOnStall(w, i, ev) ==
  IF ~w.drag[i].active \/ ev.pointerId # w.drag[i].pointerId
  THEN w
  ELSE LET deltaX == ev.clientX - w.drag[i].startX
           activates == Activates(w, i, ev)
           canCapture == isConnected /\ ev.captureOk
           w1 == IF activates
                 THEN [w EXCEPT
                         !.drag[i].hasMoved = TRUE,
                         !.drag[i].lastScrollLeft = w.scrollLeft,
                         !.classes = @ \cup {"dragging"},
                         !.capture = IF canCapture THEN ev.pointerId ELSE @,
                         !.drag[i].captured = canCapture]
                 ELSE w
       IN  IF ~w1.drag[i].hasMoved
           THEN w1
           ELSE LET w2 == SetScrollLeft(w1, w1.drag[i].scrollLeft - Px(deltaX))
                    dt == IF activates THEN 0 ELSE ev.dt
                    velocity == IF dt > 0
                                THEN (w2.scrollLeft - w2.drag[i].lastScrollLeft) \div dt
                                ELSE 0
                IN  [Note(w2, "move", i, IF dt > 0 THEN "sampled" ELSE "kept")
                       EXCEPT
                       !.drag[i].velocity = velocity,
                       !.drag[i].lastScrollLeft = w2.scrollLeft]

\* ev.dt is ev.timeStamp - drag.lastTime as it was before the event;
\* ev.captureOk tells whether setPointerCapture succeeds or throws. A move
\* that is handled to the end, where ev.preventDefault() is called, is noted
\* with what it did to the velocity: "sampled" or "kept"
onPointerMove(w, i, ev) ==
  IF ~w.drag[i].active \/ ev.pointerId # w.drag[i].pointerId
  THEN w
  ELSE LET deltaX == ev.clientX - w.drag[i].startX
           activates == Activates(w, i, ev)
           canCapture == isConnected /\ ev.captureOk
           w1 == IF activates
                 THEN [w EXCEPT
                         !.drag[i].hasMoved = TRUE,
                         !.drag[i].lastScrollLeft = w.scrollLeft,
                         !.classes = @ \cup {"dragging"},
                         !.capture = IF canCapture THEN ev.pointerId ELSE @,
                         !.drag[i].captured = canCapture]
                 ELSE w
       IN  IF ~w1.drag[i].hasMoved
           THEN w1
           ELSE LET w2 == SetScrollLeft(w1, w1.drag[i].scrollLeft - Px(deltaX))
                    dt == IF activates THEN 0 ELSE ev.dt
                    velocity == IF dt > 0
                                THEN (w2.scrollLeft - w2.drag[i].lastScrollLeft) \div dt
                                ELSE w2.drag[i].velocity
                IN  [Note(w2, "move", i, IF dt > 0 THEN "sampled" ELSE "kept")
                       EXCEPT
                       !.drag[i].velocity = velocity,
                       !.drag[i].lastScrollLeft = w2.scrollLeft]

\* a pointer-end handler that starts the animation with the drag still on
onPointerEndKeepsDrag(w, i, ev) ==
  IF ev.pointerId # w.drag[i].pointerId
  THEN w
  ELSE LET d == w.drag[i]
           w1 == [w EXCEPT
                    !.capture = IF d.captured /\ d.pointerId # 0
                                   /\ w.capture = d.pointerId
                                THEN 0 ELSE @,
                    !.classes = @ \ {"grabbing"}]
       IN  IF ~d.hasMoved
           THEN [w1 EXCEPT !.drag[i] = createDragState,
                           !.classes = @ \ {"dragging"}]
           ELSE IF Abs(d.velocity) > threshold
           THEN startMomentum(w1, i, d.velocity)
           ELSE alignToNearestItem(
                  [w1 EXCEPT !.classes = @ \ {"dragging"}], i)

onPointerEnd(w, i, ev) ==
  IF ev.pointerId # w.drag[i].pointerId
  THEN w
  ELSE LET d == w.drag[i]
           w1 == [w EXCEPT
                    !.drag[i] = createDragState,
                    !.capture = IF d.captured /\ d.pointerId # 0
                                   /\ w.capture = d.pointerId
                                THEN 0 ELSE @,
                    !.classes = @ \ {"grabbing"}]
       IN  IF ~d.hasMoved
           THEN [w1 EXCEPT !.classes = @ \ {"dragging"}]
           ELSE IF Abs(d.velocity) > threshold
           THEN startMomentum(w1, i, d.velocity)
           ELSE alignToNearestItem(
                  [w1 EXCEPT !.classes = @ \ {"dragging"}], i)

\* a cleanup that leaves the listeners on the container
cleanupKeepsListeners(w, i) ==
  LET w1 == stopMomentum(w, i)
  IN  [w1 EXCEPT !.stateMap = 0]

\* state.cleanup of instance i
cleanup(w, i) ==
  LET w1 == stopMomentum(w, i)
  IN  [w1 EXCEPT !.listeners[i] = FALSE, !.stateMap = 0]

\* ------------------------------------------------------------------------
\* Event delivery: the container calls the listeners in registration order
\* ------------------------------------------------------------------------
RECURSIVE DispatchDown(_, _, _)
DispatchDown(w, i, ev) ==
  IF i > MaxInstances THEN w
  ELSE DispatchDown(IF w.listeners[i] THEN onPointerDown(w, i, ev) ELSE w,
                    i + 1, ev)

RECURSIVE DispatchMove(_, _, _)
DispatchMove(w, i, ev) ==
  IF i > MaxInstances THEN w
  ELSE DispatchMove(IF w.listeners[i] THEN onPointerMove(w, i, ev) ELSE w,
                    i + 1, ev)

RECURSIVE DispatchEnd(_, _, _)
DispatchEnd(w, i, ev) ==
  IF i > MaxInstances THEN w
  ELSE DispatchEnd(IF w.listeners[i] THEN onPointerEnd(w, i, ev) ELSE w,
                   i + 1, ev)

\* ------------------------------------------------------------------------
\* Initial state: a rendered container, no engine attached yet
\* ------------------------------------------------------------------------
EngineInit ==
  /\ stateMap = 0
  /\ listeners = [i \in Instances |-> FALSE]
  /\ retired = FALSE
  /\ drag = [i \in Instances |-> createDragState]
  /\ frame = [i \in Instances |-> 0]
  /\ raf = {}
  /\ layout \in Layouts
  /\ scrollLeft \in {s \in InitialScrolls :
                       s <= Max(0, layout.scrollWidth - layout.clientWidth)}
  /\ classes = {}
  /\ capture = 0
  /\ smooth = NoTarget
  /\ isConnected = TRUE
  /\ last = Quiet

\* ------------------------------------------------------------------------
\* Operations
\* ------------------------------------------------------------------------
Live == {i \in Instances : listeners[i]}

FreeSlot == CHOOSE i \in Instances \ Live : \A j \in Instances \ Live : i <= j

\* enableMomentumScroll(container): the registered instance's cleanup, or a
\* new instance with its listeners and its registry entry
EnableMomentumScroll ==
  /\ IF stateMap # 0
     THEN /\ last' = [op |-> "attach", handle |-> stateMap,
                      info |-> "existing"]
          /\ UNCHANGED <<stateMap, listeners, drag, frame>>
     ELSE /\ Live # Instances
          /\ listeners' = [listeners EXCEPT ![FreeSlot] = TRUE]
          /\ drag' = [drag EXCEPT ![FreeSlot] = createDragState]
          /\ frame' = [frame EXCEPT ![FreeSlot] = 0]
          /\ stateMap' = FreeSlot
          /\ last' = [op |-> "attach", handle |-> FreeSlot, info |-> "new"]
  /\ UNCHANGED <<retired, raf, scrollLeft, classes, capture, smooth,
                 isConnected, layout>>

\* once its listeners are gone nothing reaches the instance's record any
\* more: the slot is free for the next instance
Retire(w, i) == [w EXCEPT !.drag[i] = createDragState]

\* what instance i is doing
Phase(i) ==
  IF \E c \in raf : c.owner = i /\ c.kind = "step" THEN "momentum"
  ELSE IF \E c \in raf : c.owner = i /\ c.kind = "settle" THEN "settling"
  ELSE IF drag[i].hasMoved THEN "dragging"
  ELSE IF drag[i].active THEN "pressed"
  ELSE "idle"

\* invoking the cleanup handle of the live instance i
CleanupCall(i) ==
  /\ listeners[i]
  /\ Apply(Retire(cleanup(Note(World, "cleanup", i,
                                IF Phase(i) = "momentum" THEN "momentum"
                                ELSE "none"), i), i))
  /\ retired' = TRUE
  /\ UNCHANGED <<isConnected, layout>>

\* invoking once more the cleanup handle of an instance cleaned up before:
\* its frame handle is undefined and its listeners are gone already
StaleCleanupCall ==
  /\ retired
  /\ classes' = classes \ {"momentum", "dragging"}
  /\ stateMap' = 0
  /\ last' = Quiet
  /\ UNCHANGED <<listeners, retired, drag, frame, raf, scrollLeft, capture,
                 smooth, isConnected, layout>>

DetachMomentumScroll ==
  /\ IF stateMap # 0
     THEN /\ Apply(Retire(cleanup(World, stateMap), stateMap))
          /\ retired' = TRUE
     ELSE /\ Apply(World)
          /\ UNCHANGED retired
  /\ UNCHANGED <<isConnected, layout>>

PointerDown(ev) ==
  /\ Apply(DispatchDown(World, 1, ev))
  /\ UNCHANGED <<retired, isConnected, layout>>

PointerMove(ev) ==
  /\ Apply(DispatchMove(World, 1, ev))
  /\ UNCHANGED <<retired, isConnected, layout>>

\* pointerup and pointercancel share the listener; once the event has been
\* delivered the browser drops any capture of that pointer
PointerEnd(ev) ==
  LET w == DispatchEnd(World, 1, ev)
  IN  /\ Apply([w EXCEPT !.capture = IF @ = ev.pointerId THEN 0 ELSE @])
      /\ UNCHANGED <<retired, isConnected, layout>>

\* the browser runs one pending animation-frame callback
Frame(c, dt) ==
  /\ c \in raf
  /\ LET w0 == [World EXCEPT
                  !.raf = @ \ {c},
                  !.frame[c.owner] = IF @ = c.id THEN -1 ELSE @]
     IN  Apply(IF c.kind = "step" THEN step(w0, c, dt) ELSE settle(w0, c))
  /\ UNCHANGED <<retired, isConnected, layout>>

\* positions a running smooth scroll shows next: about half way (on the grid) or
\* its target
SmoothPositions(cur, target) ==
  LET m == Px(GridPx * (((cur + target) \div Px(GridPx)) \div 2))
  IN  {target} \cup (IF m # cur THEN {m} ELSE {})

\* the browser advances a running smooth scroll
SmoothScrollStep ==
  /\ smooth # NoTarget
  /\ \E p \in SmoothPositions(scrollLeft, smooth) :
       /\ scrollLeft' = p
       /\ smooth' = IF p = smooth THEN NoTarget ELSE smooth
  /\ last' = Quiet
  /\ UNCHANGED <<stateMap, listeners, retired, drag, frame, raf, classes,
                 capture, isConnected, layout>>

\* _handleDailySelected: a day is picked in the daily list and the card
\* scrolls the hourly container to the first hour of that day, found at
\* targetIndex (0-based; not found is -1). The container's left padding is
\* the 16 px the handler subtracts, so the offset is the item's snap offset.
DayIndexes == {0, 2}
handleDailySelected(w, targetIndex) ==
  IF targetIndex <= 0 THEN ScrollToSmooth(w, 0)
  ELSE IF targetIndex + 1 > Len(layout.itemOffsets) THEN w
  ELSE ScrollToSmooth(w, Max(0, layout.itemOffsets[targetIndex + 1]))

DaySelected(targetIndex) ==
  /\ Apply(Note(handleDailySelected(World, targetIndex), "daySelected", 0,
                "none"))
  /\ UNCHANGED <<retired, isConnected, layout>>

\* what the geometry reads give for an element without a layout box: no
\* size, and every item's rectangle at the origin
NoBox(l) ==
  [scrollWidth |-> 0, clientWidth |-> 0,
   itemOffsets |-> [k \in DOMAIN l.itemOffsets |-> 0]]

\* the container is removed from the document: it loses its layout box, its
\* scroll position reads 0 and a running smooth scroll ends
Disconnect ==
  /\ isConnected
  /\ isConnected' = FALSE
  /\ capture' = 0
  /\ layout' = NoBox(layout)
  /\ scrollLeft' = 0
  /\ smooth' = NoTarget
  /\ last' = Quiet
  /\ UNCHANGED <<stateMap, listeners, retired, drag, frame, raf, classes>>

DownEvents ==
  { [pointerId |-> 1, button |-> 0, pointerType |-> "mouse", clientX |-> 100],
    [pointerId |-> 1, button |-> 2, pointerType |-> "mouse", clientX |-> 100],
    [pointerId |-> 1, button |-> 0, pointerType |-> "touch", clientX |-> 100],
    [pointerId |-> 2, button |-> 0, pointerType |-> "pen", clientX |-> 100] }
MoveEvents ==
  [pointerId : PointerIds, clientX : MoveXs, dt : {20}, captureOk : {TRUE}]
    \cup { [pointerId |-> 1, clientX |-> 88, dt |-> 1, captureOk |-> TRUE],
           [pointerId |-> 1, clientX |-> 92, dt |-> 0, captureOk |-> TRUE],
           [pointerId |-> 1, clientX |-> 92, dt |-> -20, captureOk |-> TRUE],
           [pointerId |-> 1, clientX |-> 96, dt |-> 20, captureOk |-> FALSE] }
EndEvents == [pointerId : PointerIds, type : {"pointerup", "pointercancel"}]

\* ------------------------------------------------------------------------
\* Solar times and day/night classification
\*
\* Instants are in quarters of an hour of the viewer's local time, instant 0
\* being a local midnight; there is no change of clock in the modelled days.
\* ------------------------------------------------------------------------
Hour == 4
Day == 24 * Hour
Undefined == -100000
NaN == -100001

\* _formatDayKey: the local calendar day of an instant; keys compare as the
\* days do
formatDayKey(t) == t \div Day

\* SunCalc.getTimes(date, lat, lng), sunrise and sunset only.  julianCycle
\* rounds to the solar noon nearest to the date; sunset is that noon plus the
\* hour angle of the -0.833 degree altitude, sunrise the same span before it;
\* the hour angle is NaN when the sun does not cross that altitude.
\* e.noonPhase is the local time of day of solar noon, e.halfArc the span,
\* e.polarFrom the first day without a crossing.
julianCycle(e, date) == (2 * (date - e.noonPhase) + Day) \div (2 * Day)

hourAngle(e, n) == IF n >= e.polarFrom THEN NaN ELSE e.halfArc

getTimes(e, date) ==
  LET n == julianCycle(e, date)
      Jnoon == e.noonPhase + n * Day
      w == hourAngle(e, n)
  IN  IF w = NaN
      THEN [sunrise |-> NaN, sunset |-> NaN]
      ELSE [sunrise |-> Jnoon - w, sunset |-> Jnoon + w]

\* a _toTimestamp that does not test the time for being finite
toTimestampUnchecked(value) == value

\* _toTimestamp: the time of a valid Date, undefined otherwise
toTimestamp(value) ==
  IF value = Undefined THEN Undefined
  ELSE IF value = NaN THEN Undefined ELSE value

evaluateShift(targetKey, timestamp) ==
  IF timestamp = Undefined THEN 0
  ELSE IF formatDayKey(timestamp) = targetKey THEN 0
  ELSE IF formatDayKey(timestamp) < targetKey THEN 1 ELSE -1

\* a _determineDayShift that asks the sunset first
determineDayShiftSunsetFirst(targetKey, sunrise, sunset) ==
  LET sunsetShift == evaluateShift(targetKey, sunset)
  IN  IF sunsetShift # 0 THEN sunsetShift
      ELSE evaluateShift(targetKey, sunrise)

determineDayShift(targetKey, sunrise, sunset) ==
  LET sunriseShift == evaluateShift(targetKey, sunrise)
  IN  IF sunriseShift # 0 THEN sunriseShift
      ELSE evaluateShift(targetKey, sunset)

NoEntry == [has |-> FALSE, sunrise |-> Undefined, sunset |-> Undefined]

\* the entry _calculateSunTimes stores for the day of one forecast item
DayEntry(e, date) ==
  LET key == formatDayKey(date)
      baseDate == key * Day
      times == getTimes(e, baseDate)
      dayShift == determineDayShift(key, toTimestamp(times.sunrise),
                                    toTimestamp(times.sunset))
      final == IF dayShift # 0
               THEN getTimes(e, baseDate + dayShift * Day)
               ELSE times
  IN  [has |-> TRUE, sunrise |-> toTimestamp(final.sunrise),
       sunset |-> toTimestamp(final.sunset)]

DayKeys(fc) == {formatDayKey(fc[i].datetime) : i \in 1..Len(fc)}

RECURSIVE FillSunTimes(_, _, _, _)
FillSunTimes(e, fc, i, sunTimes) ==
  IF i > Len(fc) THEN sunTimes
  ELSE LET key == formatDayKey(fc[i].datetime)
       IN  FillSunTimes(e, fc, i + 1,
             IF sunTimes[key].has THEN sunTimes
             ELSE [sunTimes EXCEPT ![key] = DayEntry(e, fc[i].datetime)])

calculateSunTimes(e, coords, fc) ==
  IF coords = "absent" \/ Len(fc) = 0 THEN [k \in {} |-> NoEntry]
  ELSE IF coords = "nonfinite" THEN [k \in {} |-> NoEntry]
  ELSE FillSunTimes(e, fc, 1, [k \in DayKeys(fc) |-> NoEntry])

TimesOf(table, date) ==
  IF formatDayKey(date) \in DOMAIN table
  THEN table[formatDayKey(date)] ELSE NoEntry

\* a JavaScript boolean as the model carries it next to "undefined"
Bool(b) == IF b THEN "true" ELSE "false"

\* an _isNightFromSunTimes for which the instant of sunset is still day
nightFromTimesSunsetIsDay(times, timestamp) ==
  IF ~times.has \/ times.sunrise = Undefined \/ times.sunset = Undefined
  THEN "undefined"
  ELSE IF times.sunrise <= times.sunset
  THEN Bool(timestamp < times.sunrise \/ timestamp > times.sunset)
  ELSE Bool(~(timestamp >= times.sunrise /\ timestamp < times.sunset))

\* _isNightFromSunTimes on the entry of the instant's day: "true", "false"
\* or "undefined"
nightFromTimes(times, timestamp) ==
  IF ~times.has \/ times.sunrise = Undefined \/ times.sunset = Undefined
  THEN "undefined"
  ELSE IF times.sunrise <= times.sunset
  THEN Bool(timestamp < times.sunrise \/ timestamp >= times.sunset)
  ELSE Bool(~(timestamp >= times.sunrise /\ timestamp < times.sunset))

isNightFromSunTimes(table, date) == nightFromTimes(TimesOf(table, date), date)

\* a _shouldUseNightIcon that takes an unknown classification for night
shouldUseNightIconUnknownIsNight(table, item) ==
  IF item.is_daytime = "false" THEN TRUE
  ELSE IF item.is_daytime = "true" THEN FALSE
  ELSE isNightFromSunTimes(table, item.datetime) # "false"

\* _shouldUseNightIcon
shouldUseNightIcon(table, item) ==
  IF item.is_daytime = "false" THEN TRUE
  ELSE IF item.is_daytime = "true" THEN FALSE
  ELSE LET derived == isNightFromSunTimes(table, item.datetime)
       IN  IF derived = "undefined" THEN FALSE ELSE derived = "true"

getIntervalEnd(fc, index, start) ==
  IF index + 1 <= Len(fc) /\ fc[index + 1].datetime > start
  THEN fc[index + 1].datetime
  ELSE start + Hour

NoEvent == [type |-> "none", timestamp |-> Undefined]

\* the lookup of _getSunEventForHour testing sunset before sunrise
sunEventInSunsetFirst(times, start, end) ==
  IF ~times.has THEN NoEvent
  ELSE IF times.sunset # Undefined /\ times.sunset >= start
          /\ times.sunset < end
  THEN [type |-> "sunset", timestamp |-> times.sunset]
  ELSE IF times.sunrise # Undefined /\ times.sunrise >= start
          /\ times.sunrise < end
  THEN [type |-> "sunrise", timestamp |-> times.sunrise]
  ELSE NoEvent

\* the lookup of _getSunEventForHour with the end of the slot included
sunEventInClosedSlot(times, start, end) ==
  IF ~times.has THEN NoEvent
  ELSE IF times.sunrise # Undefined /\ times.sunrise >= start
          /\ times.sunrise <= end
  THEN [type |-> "sunrise", timestamp |-> times.sunrise]
  ELSE IF times.sunset # Undefined /\ times.sunset >= start
          /\ times.sunset <= end
  THEN [type |-> "sunset", timestamp |-> times.sunset]
  ELSE NoEvent

\* the lookup of _getSunEventForHour in the slot [start, end)
sunEventIn(times, start, end) ==
  IF ~times.has THEN NoEvent
  ELSE IF times.sunrise # Undefined /\ times.sunrise >= start
          /\ times.sunrise < end
  THEN [type |-> "sunrise", timestamp |-> times.sunrise]
  ELSE IF times.sunset # Undefined /\ times.sunset >= start
          /\ times.sunset < end
  THEN [type |-> "sunset", timestamp |-> times.sunset]
  ELSE NoEvent

\* _getSunEventForHour for the item at index (from 1)
getSunEventForHour(show, table, fc, index) ==
  IF ~show THEN NoEvent
  ELSE LET start == fc[index].datetime
       IN  sunEventIn(TimesOf(table, start), start,
                      getIntervalEnd(fc, index, start))

\* what _isDaytimeNow makes of the two events and the present instant
daytimeFromTimes(sunrise, sunset, nowTime) ==
  IF sunrise = NaN \/ sunset = NaN THEN TRUE
  ELSE IF sunrise <= sunset
  THEN nowTime >= sunrise /\ nowTime < sunset
  ELSE nowTime >= sunrise \/ nowTime < sunset

\* _isDaytimeNow of the card header
isDaytimeNow(attributeValue, coords, e, now) ==
  IF attributeValue = "true" THEN TRUE
  ELSE IF attributeValue = "false" THEN FALSE
  ELSE IF coords # "valid" THEN TRUE
  ELSE LET times == getTimes(e, now)
       IN  daytimeFromTimes(times.sunrise, times.sunset, now)

\* ------------------------------------------------------------------------
\* Inputs of the hourly list and the header
\* ------------------------------------------------------------------------
Flags == {"none", "true", "false"}

\* item i of a forecast of n samples, step apart, from start; flagged
\* forecasts carry is_daytime on two items out of three
MkForecast(shape) ==
  [i \in 1..shape.n |->
     [datetime |-> shape.start + (i - 1) * shape.step,
      is_daytime |-> IF ~shape.flagged \/ i % 3 = 1 THEN "none"
                     ELSE IF i % 3 = 2 THEN "true" ELSE "false"]]

ForecastShapes ==
  { [start |-> 0, step |-> Hour, n |-> 24, flagged |-> FALSE],
    [start |-> 0, step |-> Hour, n |-> 25, flagged |-> TRUE],
    [start |-> 22 * Hour, step |-> Hour, n |-> 27, flagged |-> FALSE],
    [start |-> 0, step |-> 3 * Hour, n |-> 9, flagged |-> FALSE],
    [start |-> 5 * Hour, step |-> Hour, n |-> 2, flagged |-> FALSE] }

\* solar noon early, at 12:00, just after it and late in the viewer's day; a
\* sun up for half an hour, for twelve hours and, near the polar day, from
\* midnight to midnight
Ephemerides ==
  [noonPhase : {2 * Hour, 12 * Hour, 12 * Hour + 1, 20 * Hour},
   halfArc : {1, 6 * Hour},
   polarFrom : {0, 1, 3}]
    \cup {[noonPhase |-> 12 * Hour, halfArc |-> 12 * Hour, polarFrom |-> 3]}

Nows == {0, 7 * Hour, 19 * Hour}

SunInit ==
  /\ forecast = <<>>
  /\ sunCoordinates = "absent"
  /\ showSunTimes = FALSE
  /\ eph \in Ephemerides
  /\ sunTimesByDay = [k \in {} |-> NoEntry]
  /\ rendered = <<>>
  /\ header = [attribute |-> "none", coords |-> "absent", now |-> 0,
               isDaytime |-> TRUE]

SunParked ==
  /\ forecast = <<>>
  /\ sunCoordinates = "absent"
  /\ showSunTimes = FALSE
  /\ eph = [noonPhase |-> 12 * Hour, halfArc |-> 6 * Hour, polarFrom |-> 3]
  /\ sunTimesByDay = [k \in {} |-> NoEntry]
  /\ rendered = <<>>
  /\ header = [attribute |-> "none", coords |-> "absent", now |-> 0,
               isDaytime |-> TRUE]

\* the host sets the list's properties: willUpdate recomputes the solar
\* times, render produces every item's marker and icon
UpdateHourlyList(fc, coords, show) ==
  /\ forecast' = fc
  /\ sunCoordinates' = coords
  /\ showSunTimes' = show
  /\ sunTimesByDay' = calculateSunTimes(eph, coords, fc)
  /\ rendered' = [i \in 1..Len(fc) |->
                    [sunEvent |-> getSunEventForHour(show, sunTimesByDay', fc, i),
                     night |-> shouldUseNightIcon(sunTimesByDay', fc[i])]]
  /\ UNCHANGED <<eph, header>>

\* the card renders its header
RenderHeader(attributeValue, now) ==
  /\ header' = [attribute |-> attributeValue, coords |-> sunCoordinates,
                now |-> now,
                isDaytime |-> isDaytimeNow(attributeValue, sunCoordinates,
                                           eph, now)]
  /\ UNCHANGED <<forecast, sunCoordinates, showSunTimes, eph, sunTimesByDay,
                 rendered>>

\* ------------------------------------------------------------------------
\* The classifiers applied to arbitrary arguments
\* ------------------------------------------------------------------------
MaxInstant == 5

ProbeInit ==
  probe \in [timestamp : 0..MaxInstant, sunrise : 0..MaxInstant,
             sunset : 0..MaxInstant, night : {"pending"},
             daytime : {"pending"}]

ProbeParked ==
  probe = [timestamp |-> 0, sunrise |-> 0, sunset |-> 0, night |-> "pending",
           daytime |-> "pending"]

\* the list's classifier and the header's decision on the same arguments
Classify ==
  /\ probe.night = "pending"
  /\ probe' = [probe EXCEPT
                 !.night = nightFromTimes([has |-> TRUE, sunrise |-> probe.sunrise,
                                           sunset |-> probe.sunset],
                                          probe.timestamp),
                 !.daytime = Bool(daytimeFromTimes(probe.sunrise, probe.sunset,
                                                   probe.timestamp))]

\* the day shift applied to a key and any two events of the days around it,
\* and the entry computed for a forecast date under every ephemeris
ShiftKeys == {1}
ShiftInstants == {Undefined, Day - 1, Day, 2 * Day - 1, 2 * Day}
ShiftDates == {5 * Hour, Day + 5 * Hour}

ShiftInit ==
  probe \in [key : ShiftKeys, sunrise : ShiftInstants, sunset : ShiftInstants,
             e : Ephemerides, date : ShiftDates, done : {FALSE},
             shift : {0}, entry : {NoEntry}]

DetermineShift ==
  /\ ~probe.done
  /\ probe' = [probe EXCEPT
                 !.done = TRUE,
                 !.shift = determineDayShift(probe.key, probe.sunrise,
                                             probe.sunset),
                 !.entry = DayEntry(probe.e, probe.date)]

\* ------------------------------------------------------------------------
\* The card's coordinates
\* ------------------------------------------------------------------------
MaxStrLen == 2

\* a configured value: undefined, null, a number or a string
Chars == {"-", "1", "9", "x"}
Strings == UNION {[1..n -> Chars] : n \in 0..MaxStrLen}
Infinity == 100002
Numbers == {-181, -180, -91, -90, 0, 52, 90, 91, 180, 181, NaN, Infinity,
            -Infinity}
RawUndefined == [type |-> "undefined", num |-> 0, str |-> <<>>]
RawNull == [type |-> "null", num |-> 0, str |-> <<>>]
RawNumber(n) == [type |-> "number", num |-> n, str |-> <<>>]
RawString(s) == [type |-> "string", num |-> 0, str |-> s]
RawValues ==
  {RawUndefined, RawNull} \cup {RawNumber(n) : n \in Numbers}
    \cup {RawString(s) : s \in Strings}

\* parseFloat: an optional sign and the longest run of digits that follows
\* it; NaN when there is no digit there
IsDigit(ch) == ch \in {"1", "9"}
DigitValue(ch) == IF ch = "1" THEN 1 ELSE 9
RECURSIVE DigitsFrom(_, _, _)
DigitsFrom(s, k, acc) ==
  IF k > Len(s) THEN acc
  ELSE IF ~IsDigit(s[k]) THEN acc
  ELSE DigitsFrom(s, k + 1, 10 * acc + DigitValue(s[k]))

parseFloat(s) ==
  LET negative == Len(s) > 0 /\ s[1] = "-"
      first == IF negative THEN 2 ELSE 1
  IN  IF first > Len(s) THEN NaN
      ELSE IF ~IsDigit(s[first]) THEN NaN
      ELSE IF negative THEN -DigitsFrom(s, first, 0)
      ELSE DigitsFrom(s, first, 0)

IsFinite(n) == n \notin {NaN, Infinity, -Infinity}

parseCoordinateUnbounded(value, min, max) ==
  IF value.type \in {"undefined", "null"} THEN Undefined
  ELSE LET numericValue == IF value.type = "number" THEN value.num
                           ELSE parseFloat(value.str)
       IN  IF ~IsFinite(numericValue) THEN Undefined ELSE numericValue

parseCoordinate(value, min, max) ==
  IF value.type \in {"undefined", "null"} THEN Undefined
  ELSE LET numericValue == IF value.type = "number" THEN value.num
                           ELSE parseFloat(value.str)
       IN  IF ~IsFinite(numericValue) THEN Undefined
           ELSE IF numericValue < min \/ numericValue > max THEN Undefined
           ELSE numericValue

NoCoordinates == [has |-> FALSE, latitude |-> Undefined,
                  longitude |-> Undefined]
NoKey == <<>>

\* _getLocationCoordinates on the cache c with the configuration cfg: the
\* returned pair and the cache it leaves
getLocationCoordinates(c, cfg) ==
  IF ~cfg.config
  THEN [cacheKey |-> NoKey, cache |-> NoCoordinates, result |-> NoCoordinates]
  ELSE
    LET useHome == cfg.sun_use_home_coordinates # "false"
        latitude == IF useHome THEN parseCoordinate(cfg.hassLatitude, -90, 90)
                    ELSE parseCoordinate(cfg.sun_latitude, -90, 90)
        longitude == IF useHome
                     THEN parseCoordinate(cfg.hassLongitude, -180, 180)
                     ELSE parseCoordinate(cfg.sun_longitude, -180, 180)
        key == <<latitude, longitude>>
        made == [has |-> TRUE, latitude |-> latitude, longitude |-> longitude]
    IN  IF latitude = Undefined \/ longitude = Undefined
        THEN [cacheKey |-> NoKey, cache |-> NoCoordinates,
              result |-> NoCoordinates]
        ELSE IF c.cacheKey = key /\ c.cache.has
        THEN [cacheKey |-> c.cacheKey, cache |-> c.cache, result |-> c.cache]
        ELSE [cacheKey |-> key, cache |-> made, result |-> made]

\* what the list and the header are handed for a returned pair
CoordinatesKind(pair) == IF pair.has THEN "valid" ELSE "absent"

\* configurations: the home coordinates Home Assistant reports (none when
\* hass is not set), the configured pair, and which of the two is used
HomeValues == {RawUndefined} \cup {RawNumber(n) : n \in Numbers}
CardConfig(present, useHome, lat, lon, hLat, hLon, show) ==
  [config |-> present, sun_use_home_coordinates |-> useHome,
   sun_latitude |-> lat, sun_longitude |-> lon,
   hassLatitude |-> hLat, hassLongitude |-> hLon, show_sun_times |-> show]
CoreValues == {RawUndefined, RawNumber(0), RawNumber(181),
               RawString(<<"9">>), RawString(<<"x">>)}
CardConfigs ==
  {CardConfig(FALSE, "undefined", RawUndefined, RawUndefined,
              RawNumber(52), RawNumber(0), TRUE)}
    \cup {CardConfig(TRUE, u, RawString(<<"9">>), RawString(<<"1">>), h1, h2,
                     show) :
            u \in {"undefined", "true"}, h1 \in HomeValues, h2 \in HomeValues,
            show \in BOOLEAN}
    \cup {CardConfig(TRUE, "false", v, w, RawNumber(52), RawNumber(0), TRUE) :
            v \in RawValues, w \in CoreValues}
    \cup {CardConfig(TRUE, "false", w, v, RawNumber(52), RawNumber(0), TRUE) :
            v \in RawValues, w \in CoreValues}

\* what the claim calls a missing, non-finite or out-of-range value
NumericValue(value) ==
  IF value.type = "number" THEN value.num ELSE parseFloat(value.str)
Verdict(value, min, max) ==
  IF value.type \in {"undefined", "null"} THEN "missing"
  ELSE IF NumericValue(value) \in {NaN, Infinity, -Infinity} THEN "nonfinite"
  ELSE IF NumericValue(value) \notin min..max THEN "outofrange"
  ELSE "ok"
Given(cfg) ==
  LET home == cfg.sun_use_home_coordinates # "false"
  IN  [config |-> cfg.config,
       show_sun_times |-> cfg.show_sun_times,
       latitude |-> Verdict(IF home THEN cfg.hassLatitude
                            ELSE cfg.sun_latitude, -90, 90),
       longitude |-> Verdict(IF home THEN cfg.hassLongitude
                             ELSE cfg.sun_longitude, -180, 180)]

CardForecast == MkForecast([start |-> 5 * Hour, step |-> Hour, n |-> 3,
                            flagged |-> FALSE])

CoordsInit ==
  location = [cacheKey |-> NoKey, cache |-> NoCoordinates,
            result |-> NoCoordinates, hit |-> FALSE,
            given |-> [config |-> FALSE, show_sun_times |-> FALSE,
                       latitude |-> "missing", longitude |-> "missing"]]

\* the card renders with the configuration cfg: render asks for the
\* coordinates and hands them to the hourly list, the header's background
\* asks for them again
RenderCard(cfg) ==
  LET first == getLocationCoordinates(location, cfg)
      second == getLocationCoordinates(first, cfg)
      kind == CoordinatesKind(first.result)
      show == cfg.config /\ cfg.show_sun_times /\ first.result.has
  IN  /\ location' = [cacheKey |-> second.cacheKey, cache |-> second.cache,
                    result |-> first.result,
                    hit |-> first.result.has /\ location.cacheKey = first.cacheKey,
                    given |-> Given(cfg)]
      /\ forecast' = CardForecast
      /\ sunCoordinates' = kind
      /\ showSunTimes' = show
      /\ sunTimesByDay' = calculateSunTimes(eph, kind, CardForecast)
      /\ rendered' = [i \in 1..Len(CardForecast) |->
                        [sunEvent |-> getSunEventForHour(show, sunTimesByDay',
                                                         CardForecast, i),
                         night |-> shouldUseNightIcon(sunTimesByDay',
                                                      CardForecast[i])]]
      /\ header' = [attribute |-> "none",
                    coords |-> CoordinatesKind(second.result), now |-> 0,
                    isDaytime |-> isDaytimeNow("none",
                                               CoordinatesKind(second.result),
                                               eph, 0)]
      /\ UNCHANGED <<eph, card>>

\* ------------------------------------------------------------------------
\* The card's scroll containers and their engines
\* ------------------------------------------------------------------------
MaxElements == 3

ForecastTypes == {"daily", "hourly"}
Elements == 1..MaxElements
NoElement == 0

\* enableMomentumScroll as the card sees it: k.attached holds the containers
\* registered in stateMap, whose listeners are on; the cleanup it returns is
\* named after its container
attachEngine(k, container) ==
  IF container \in k.attached
  THEN [k EXCEPT !.log = Append(@, [op |-> "existing", el |-> container])]
  ELSE [k EXCEPT !.attached = @ \cup {container},
                 !.log = Append(@, [op |-> "attach", el |-> container])]

callCleanup(k, container) ==
  [k EXCEPT !.attached = @ \ {container},
            !.log = Append(@, [op |-> "cleanup", el |-> container])]

teardownDragScroll(k, type) ==
  IF k.momentumCleanup[type] # NoElement
  THEN [callCleanup(k, k.momentumCleanup[type])
          EXCEPT !.momentumCleanup[type] = NoElement,
                 !.momentumElement[type] = NoElement]
  ELSE k

initDragScrollNoTeardown(k, type, container) ==
  IF k.momentumElement[type] = container THEN k
  ELSE [attachEngine(k, container)
          EXCEPT !.momentumElement[type] = container,
                 !.momentumCleanup[type] = container]

initDragScroll(k, type, container) ==
  IF k.momentumElement[type] = container THEN k
  ELSE [attachEngine(teardownDragScroll(k, type), container)
          EXCEPT !.momentumElement[type] = container,
                 !.momentumCleanup[type] = container]

\* the part of updated() that follows the test of _config and _hass
syncDragScroll(k, type) ==
  IF k.rendered[type] # NoElement
  THEN initDragScroll(k, type, k.rendered[type])
  ELSE teardownDragScroll(k, type)

updated(k) ==
  IF ~k.config \/ ~k.hass THEN k
  ELSE syncDragScroll(syncDragScroll(k, "daily"), "hourly")

disconnectedCallback(k) ==
  LET afterDaily == IF k.momentumCleanup["daily"] # NoElement
                    THEN callCleanup(k, k.momentumCleanup["daily"]) ELSE k
      afterBoth == IF k.momentumCleanup["hourly"] # NoElement
                   THEN callCleanup(afterDaily, k.momentumCleanup["hourly"])
                   ELSE afterDaily
  IN  [afterBoth EXCEPT
         !.momentumCleanup = [t \in ForecastTypes |-> NoElement],
         !.momentumElement = [t \in ForecastTypes |-> NoElement],
         !.connected = FALSE]

\* render() puts nothing in the shadow root without _config and _hass; with
\* them each container is kept, dropped or created anew
RenderChoices == {"keep", "none", "fresh"}
renderOne(k, type, choice) ==
  IF ~k.config \/ ~k.hass THEN [k EXCEPT !.rendered[type] = NoElement]
  ELSE IF choice = "none" THEN [k EXCEPT !.rendered[type] = NoElement]
  ELSE IF choice = "keep" /\ k.rendered[type] # NoElement THEN k
  ELSE [k EXCEPT !.rendered[type] = k.created + 1, !.created = @ + 1]

CardInit ==
  card = [config |-> FALSE, hass |-> FALSE, connected |-> TRUE,
          rendered |-> [t \in ForecastTypes |-> NoElement],
          momentumElement |-> [t \in ForecastTypes |-> NoElement],
          momentumCleanup |-> [t \in ForecastTypes |-> NoElement],
          attached |-> {}, created |-> 0, log |-> <<>>, op |-> "none"]

SetConfig ==
  /\ card' = [card EXCEPT !.config = TRUE, !.log = <<>>, !.op = "setConfig"]
  /\ UNCHANGED location

SetHass(value) ==
  /\ card' = [card EXCEPT !.hass = value, !.log = <<>>, !.op = "setHass"]
  /\ UNCHANGED location

\* one update cycle of the element: render, then updated
Update(daily, hourly) ==
  LET cleared == [card EXCEPT !.log = <<>>, !.op = "updated"]
      shown == renderOne(renderOne(cleared, "daily", daily), "hourly", hourly)
  IN  /\ shown.created <= MaxElements
      /\ card' = updated(shown)
      /\ UNCHANGED location

ConnectedCallback ==
  /\ ~card.connected
  /\ card' = [card EXCEPT !.connected = TRUE, !.log = <<>>,
                          !.op = "connectedCallback"]
  /\ UNCHANGED location

DisconnectedCallback ==
  /\ card.connected
  /\ card' = [disconnectedCallback([card EXCEPT !.log = <<>>])
                EXCEPT !.op = "disconnectedCallback"]
  /\ UNCHANGED location

CardParked ==
  /\ CoordsInit
  /\ CardInit

\* ------------------------------------------------------------------------
\* The header's template chips and their render_template subscriptions
\* ------------------------------------------------------------------------
MaxChips == 2
MaxSubscriptions == 3

MISSING_ATTRIBUTE_TEXT == "missing"

NoConfig == <<[type |-> "none", template |-> ""]>>

\* a chip is an attribute chip or a template chip; the template is given
\* as trimmed (chip.template.trim()), "" for a blank one
Chips ==
  {[type |-> "attribute", template |-> ""]}
    \cup [type : {"template"}, template : {"", "A", "B"}]

\* _getHeaderChips: the configured chips, here never more than the three
\* the card keeps
ChipConfigs == UNION {[1..n -> Chips] : n \in 0..MaxChips}

\* the messages of a render_template subscription: an error, a null result,
\* a string (blank, or what the server renders from the template), a number
TemplateMessages(template) ==
  { [kind |-> "error", result |-> ""],
    [kind |-> "null", result |-> ""],
    [kind |-> "string", result |-> " "],
    [kind |-> "string", result |-> IF template = "A" THEN "a" ELSE "b"],
    [kind |-> "number", result |-> "7"] }

TemplatesInit ==
  templates = [config |-> NoConfig, hass |-> "unset", isConnected |-> FALSE,
               templateSubscriptions |-> <<>>,
               templateChipValues |-> [k \in {} |-> 0],
               connection |-> {}]

\* the indices of the chips that get a subscription
Templated(chips) ==
  {k \in DOMAIN chips : chips[k].type = "template" /\ chips[k].template # ""}

\* _setTemplateChipValue
setTemplateChipValue(t, index, display, missing) ==
  IF /\ index \in DOMAIN t.templateChipValues
     /\ t.templateChipValues[index] = [display |-> display, missing |-> missing]
  THEN t
  ELSE [t EXCEPT !.templateChipValues =
          [k \in DOMAIN @ \cup {index} |->
             IF k = index THEN [display |-> display, missing |-> missing]
             ELSE @[k]]]

\* _handleTemplateResult: the callback of the subscription for the chip at
\* index
handleTemplateResult(t, index, message) ==
  IF message.kind = "error"
  THEN setTemplateChipValue(t, index, MISSING_ATTRIBUTE_TEXT, TRUE)
  ELSE IF message.kind = "null"
  THEN setTemplateChipValue(t, index, MISSING_ATTRIBUTE_TEXT, TRUE)
  ELSE IF message.kind = "string"
  THEN LET trimmed == IF message.result = " " THEN "" ELSE message.result
       IN  IF trimmed = ""
           THEN setTemplateChipValue(t, index, MISSING_ATTRIBUTE_TEXT, TRUE)
           ELSE setTemplateChipValue(t, index, message.result, FALSE)
  ELSE setTemplateChipValue(t, index, message.result, FALSE)

\* The connection's subscriptions are records of the chip index and the
\* template their callback was made with, of whether the promise of
\* subscribeMessage has resolved and of whether the card has torn them
\* down. The card holds the promise of at most one subscription per index
\* that is not torn down; superseded subscriptions alike in all four are
\* kept as one, since they act on the card alike.
\*
\* _teardownTemplateSubscriptions: each promise held gets a then-callback
\* that unsubscribes. The callback of a promise resolved already runs as
\* soon as the calling handler returns, before the next message; that of a
\* pending promise runs once the subscription is confirmed. A promise of a
\* failed subscription resolves to undefined and nothing is unsubscribed.
teardownTemplateSubscriptions(t, clearValues) ==
  LET held == {k \in DOMAIN t.templateSubscriptions :
                 t.templateSubscriptions[k] = "promise"}
      marked == {IF s.index \in held THEN [s EXCEPT !.tornDown = TRUE] ELSE s :
                   s \in t.connection}
  IN  [t EXCEPT !.connection = {s \in marked : ~(s.tornDown /\ s.resolved)},
                !.templateSubscriptions = <<>>,
                !.templateChipValues =
                   IF clearValues THEN [k \in {} |-> 0] ELSE @]

\* _refreshTemplateSubscriptions; _subscribeTemplate sends one
\* render_template subscription per template chip, whose promise is pending
refreshTemplateSubscriptions(t) ==
  IF ~t.isConnected \/ t.config = NoConfig \/ t.hass # "connection"
  THEN teardownTemplateSubscriptions(t, ~t.isConnected)
  ELSE LET chips == t.config
           previousValues == t.templateChipValues
           t1 == teardownTemplateSubscriptions(t, FALSE)
       IN  [t1 EXCEPT
              !.connection =
                 @ \cup {[index |-> k, template |-> chips[k].template,
                          resolved |-> FALSE, tornDown |-> FALSE] :
                           k \in Templated(chips)},
              !.templateSubscriptions =
                 [k \in DOMAIN chips |->
                    IF k \in Templated(chips) THEN "promise"
                    ELSE "undefined"],
              !.templateChipValues =
                 [k \in Templated(chips) \cap DOMAIN previousValues |->
                    previousValues[k]]]

\* a refresh leaves the connection with no more subscriptions than the
\* bound
Room(t) ==
  Cardinality(refreshTemplateSubscriptions(t).connection) <= MaxSubscriptions

\* setConfig: with a hass it sets the hass again, which refreshes, and then
\* refreshes itself
SetConfigChips(chips) ==
  /\ LET t == [templates EXCEPT !.config = chips]
     IN  /\ Room(t)
         /\ t.hass # "unset" => Room(refreshTemplateSubscriptions(t))
         /\ templates' =
              IF t.hass # "unset"
              THEN refreshTemplateSubscriptions(refreshTemplateSubscriptions(t))
              ELSE refreshTemplateSubscriptions(t)

\* set hass, with or without a connection
SetHassConnection(value) ==
  /\ Room([templates EXCEPT !.hass = value])
  /\ templates' =
       refreshTemplateSubscriptions([templates EXCEPT !.hass = value])

\* connectedCallback
ConnectedRefresh ==
  /\ ~templates.isConnected
  /\ Room([templates EXCEPT !.isConnected = TRUE])
  /\ templates' =
       refreshTemplateSubscriptions([templates EXCEPT !.isConnected = TRUE])

\* disconnectedCallback
DisconnectedTeardown ==
  /\ templates.isConnected
  /\ templates' =
       teardownTemplateSubscriptions(
         [templates EXCEPT !.isConnected = FALSE], TRUE)

\* the server confirms subscription s: its promise resolves
SubscriptionResolved(s) ==
  /\ s \in templates.connection
  /\ ~s.resolved
  /\ templates' =
       [templates EXCEPT !.connection =
          (@ \ {s}) \cup {[s EXCEPT !.resolved = TRUE]}]

\* the subscription s fails: the catch of _subscribeTemplate shows the chip
\* as missing, and its promise resolves to undefined
SubscriptionFailed(s) ==
  /\ s \in templates.connection
  /\ ~s.resolved
  /\ templates' =
       [setTemplateChipValue(templates, s.index, MISSING_ATTRIBUTE_TEXT, TRUE)
          EXCEPT !.connection = @ \ {s}]

\* the then-callback of a torn-down subscription runs: unsub()
Unsubscribe(s) ==
  /\ s \in templates.connection
  /\ s.resolved
  /\ s.tornDown
  /\ templates' = [templates EXCEPT !.connection = @ \ {s}]

\* a message of the confirmed subscription s reaches its callback
TemplateResult(s, message) ==
  /\ s \in templates.connection
  /\ s.resolved
  /\ templates' = handleTemplateResult(templates, s.index, message)

\* ------------------------------------------------------------------------
\* Specifications
\* ------------------------------------------------------------------------
EngineParked ==
  /\ stateMap = 0
  /\ listeners = [i \in Instances |-> FALSE]
  /\ retired = FALSE
  /\ drag = [i \in Instances |-> createDragState]
  /\ frame = [i \in Instances |-> 0]
  /\ raf = {}
  /\ layout = [scrollWidth |-> Px(40), clientWidth |-> Px(90),
               itemOffsets |-> <<0, Px(20)>>]
  /\ scrollLeft = 0
  /\ classes = {}
  /\ capture = 0
  /\ smooth = NoTarget
  /\ isConnected = TRUE
  /\ last = Quiet

\* the momentum engine on one container
Init == EngineInit /\ SunParked /\ ProbeParked /\ CardParked /\ TemplatesInit
Next ==
  \/ EnableMomentumScroll /\ UNCHANGED otherVars
  \/ \E i \in Instances : CleanupCall(i) /\ UNCHANGED otherVars
  \/ StaleCleanupCall /\ UNCHANGED otherVars
  \/ DetachMomentumScroll /\ UNCHANGED otherVars
  \/ \E ev \in DownEvents : PointerDown(ev) /\ UNCHANGED otherVars
  \/ \E ev \in MoveEvents : PointerMove(ev) /\ UNCHANGED otherVars
  \/ \E ev \in EndEvents : PointerEnd(ev) /\ UNCHANGED otherVars
  \/ \E c \in raf : \E dt \in FrameDts :
       Frame(c, dt) /\ UNCHANGED otherVars
  \/ SmoothScrollStep /\ UNCHANGED otherVars
  \/ Disconnect /\ UNCHANGED otherVars
Spec == Init /\ [][Next]_vars

\* the engine of the hourly container in use, and the card's day selection
NextDay ==
  \/ EnableMomentumScroll /\ UNCHANGED otherVars
  \/ \E ev \in DownEvents : PointerDown(ev) /\ UNCHANGED otherVars
  \/ \E ev \in MoveEvents : PointerMove(ev) /\ UNCHANGED otherVars
  \/ \E ev \in EndEvents : PointerEnd(ev) /\ UNCHANGED otherVars
  \/ \E c \in raf : \E dt \in FrameDts :
       Frame(c, dt) /\ UNCHANGED otherVars
  \/ SmoothScrollStep /\ UNCHANGED otherVars
  \/ \E k \in DayIndexes :
       DaySelected(k) /\ UNCHANGED otherVars
SpecDay == Init /\ [][NextDay]_vars

\* the engine of the hourly container and the day selection, with the
\* browser doing its part: a pending settle callback is run at the next
\* frame (weak fairness of its delivery, spelled out as for the momentum
\* run below), and a smooth scroll under way goes on
SettleFramePending(i) == \E c \in raf : c.owner = i /\ c.kind = "settle"
SettleFrameDelivered(i) ==
  /\ SettleFramePending(i)
  /\ last'.op = "settle"
  /\ last'.handle = i
SettleFairness(i) ==
  \/ []<>(~SettleFramePending(i))
  \/ []<><<SettleFrameDelivered(i)>>_vars
SpecDayFair ==
  /\ Init /\ [][NextDay]_vars
  /\ \A i \in Instances : SettleFairness(i)
  /\ WF_vars(SmoothScrollStep /\ UNCHANGED otherVars)

\* the attached engine in use. The browser runs every requested callback at
\* its next frame, so the pending frame of a momentum run is delivered in
\* the end: weak fairness of that delivery, WF_vars(frame of engine i's
\* run), written with its enabling condition (such a frame is pending) and
\* its occurrence (the step callback of engine i has just run) spelled out
StepFramePending(i) == \E c \in raf : c.owner = i /\ c.kind = "step"
StepFrameDelivered(i) ==
  /\ StepFramePending(i)
  /\ last'.op = "step"
  /\ last'.handle = i
FrameFairness(i) ==
  \/ []<>(~StepFramePending(i))
  \/ []<><<StepFrameDelivered(i)>>_vars
NextRun ==
  \/ EnableMomentumScroll /\ UNCHANGED otherVars
  \/ \E ev \in DownEvents : PointerDown(ev) /\ UNCHANGED otherVars
  \/ \E ev \in MoveEvents : PointerMove(ev) /\ UNCHANGED otherVars
  \/ \E ev \in EndEvents : PointerEnd(ev) /\ UNCHANGED otherVars
  \/ \E c \in raf : \E dt \in FrameDts :
       Frame(c, dt) /\ UNCHANGED otherVars
  \/ SmoothScrollStep /\ UNCHANGED otherVars
  \/ Disconnect /\ UNCHANGED otherVars
SpecRun ==
  Init /\ [][NextRun]_vars /\ \A i \in Instances : FrameFairness(i)

\* the hourly list and the header
InitSun == EngineParked /\ SunInit /\ ProbeParked /\ CardParked /\ TemplatesInit
NextSun ==
  \/ \E shape \in ForecastShapes :
       \E coords \in {"absent", "nonfinite", "valid"} : \E show \in BOOLEAN :
         UpdateHourlyList(MkForecast(shape), coords, show)
           /\ UNCHANGED <<engineVars, probe, cardVars, templates>>
  \/ \E a \in Flags : \E now \in Nows :
       RenderHeader(a, now) /\ UNCHANGED <<engineVars, probe, cardVars, templates>>
SpecSun == InitSun /\ [][NextSun]_vars

\* the night classifier on its own
InitClassify == EngineParked /\ SunParked /\ ProbeInit /\ CardParked /\ TemplatesInit
NextClassify == Classify /\ UNCHANGED <<engineVars, sunVars, cardVars, templates>>
SpecClassify == InitClassify /\ [][NextClassify]_vars

\* the day shift and the entry of a day on their own
InitShift == EngineParked /\ SunParked /\ ShiftInit /\ CardParked /\ TemplatesInit
NextShift == DetermineShift /\ UNCHANGED <<engineVars, sunVars, cardVars, templates>>
SpecShift == InitShift /\ [][NextShift]_vars

\* the card's coordinates, handed to the header and the hourly list
InitCoords == EngineParked /\ SunParked /\ ProbeParked /\ CardParked /\ TemplatesInit
NextCoords ==
  \E cfg \in CardConfigs : RenderCard(cfg)
    /\ UNCHANGED <<engineVars, probe, templates>>
SpecCoords == InitCoords /\ [][NextCoords]_vars

\* the card's life cycle and the engines of its two containers
InitCard == EngineParked /\ SunParked /\ ProbeParked /\ CardParked /\ TemplatesInit
NextCard ==
  \/ SetConfig /\ UNCHANGED <<engineVars, sunVars, probe, templates>>
  \/ \E value \in BOOLEAN :
       SetHass(value) /\ UNCHANGED <<engineVars, sunVars, probe, templates>>
  \/ \E daily \in RenderChoices : \E hourly \in RenderChoices :
       Update(daily, hourly) /\ UNCHANGED <<engineVars, sunVars, probe, templates>>
  \/ ConnectedCallback /\ UNCHANGED <<engineVars, sunVars, probe, templates>>
  \/ DisconnectedCallback /\ UNCHANGED <<engineVars, sunVars, probe, templates>>
SpecCard == InitCard /\ [][NextCard]_vars

\* the card's template chips and the connection's subscriptions. A message
\* reaches the callback of a subscription from its confirmation until its
\* unsubscribe function is called
InitTemplates ==
  EngineParked /\ SunParked /\ ProbeParked /\ CardParked /\ TemplatesInit
NextTemplates ==
  \/ \E chips \in ChipConfigs :
       SetConfigChips(chips) /\ UNCHANGED <<engineVars, sunVars, probe, cardVars>>
  \/ \E value \in {"noConnection", "connection"} :
       SetHassConnection(value)
         /\ UNCHANGED <<engineVars, sunVars, probe, cardVars>>
  \/ ConnectedRefresh /\ UNCHANGED <<engineVars, sunVars, probe, cardVars>>
  \/ DisconnectedTeardown
       /\ UNCHANGED <<engineVars, sunVars, probe, cardVars>>
  \/ \E s \in templates.connection :
       SubscriptionResolved(s)
         /\ UNCHANGED <<engineVars, sunVars, probe, cardVars>>
  \/ \E s \in templates.connection :
       SubscriptionFailed(s)
         /\ UNCHANGED <<engineVars, sunVars, probe, cardVars>>
  \/ \E s \in templates.connection :
       Unsubscribe(s) /\ UNCHANGED <<engineVars, sunVars, probe, cardVars>>
  \/ \E s \in templates.connection :
       \E message \in TemplateMessages(s.template) :
         TemplateResult(s, message)
           /\ UNCHANGED <<engineVars, sunVars, probe, cardVars>>
SpecTemplates == InitTemplates /\ [][NextTemplates]_vars

TypeOK ==
  /\ stateMap \in 0..MaxInstances
  /\ scrollLeft \in 0..ScrollRangeMax
  /\ scrollLeft % Px(GridPx) = 0

\* ------------------------------------------------------------------------
\* Properties of the momentum engine
\* ------------------------------------------------------------------------
\* what the engine holds and writes
engineState == <<stateMap, listeners, drag, frame, raf, scrollLeft, classes,
                 smooth>>

PointerEvent ==
  \/ \E ev \in DownEvents : PointerDown(ev)
  \/ \E ev \in MoveEvents : PointerMove(ev)
  \/ \E ev \in EndEvents : PointerEnd(ev)

NoFrameOf(i) == frame[i] = 0 /\ \A c \in raf : c.owner # i

\* C1: enableMomentumScroll on an attached container adds no listeners and
\* returns the cleanup of the attached engine; after attaching twice one call
\* of that cleanup detaches the container, and on a detached container no
\* pointer-down, -move, -up or -cancel changes scrollLeft or engine state.
C1_SecondAttachReturnsSameCleanup ==
  [][ /\ (stateMap # 0 /\ EnableMomentumScroll) =>
           /\ last'.handle = stateMap
           /\ UNCHANGED engineState
      /\ \A i \in Instances :
           (Live = {i} /\ CleanupCall(i)) =>
             /\ Live' = {}
             /\ stateMap' = 0
             /\ raf' = {}
      /\ (Live = {} /\ PointerEvent) => UNCHANGED engineState
    ]_vars

\* the second attach call has just returned the cleanup of the engine that
\* is attached
C1_Witness ==
  /\ last = [op |-> "attach", handle |-> stateMap, info |-> "existing"]
  /\ Live = {stateMap}

\* C2 as stated: the first cleanup call, in whatever state the engine is,
\* leaves no pending frame, no listeners and no registry entry; a further
\* call of the same cleanup, and detachMomentumScroll on a container without
\* a registry entry, change nothing.
C2_CleanupIdempotent ==
  [][ /\ \A i \in Instances :
           CleanupCall(i) =>
             /\ NoFrameOf(i)'
             /\ ~listeners'[i]
             /\ stateMap' = 0
      /\ StaleCleanupCall => UNCHANGED <<engineState, capture>>
      /\ (stateMap = 0 /\ DetachMomentumScroll) =>
           UNCHANGED <<engineState, capture>>
    ]_vars

\* C3: cleanup during a momentum run cancels the pending frame and removes
\* the listeners without writing scrollLeft, and with no engine attached
\* and no scroll of the browser's under way nothing writes scrollLeft (it
\* reads 0 once the container has left the document).
C3_CleanupHaltsMomentum ==
  [][ /\ \A i \in Instances :
           (Phase(i) = "momentum" /\ CleanupCall(i)) =>
             /\ NoFrameOf(i)'
             /\ ~listeners'[i]
             /\ scrollLeft' = scrollLeft
      /\ (Live = {} /\ smooth = NoTarget /\ isConnected' = isConnected) =>
           scrollLeft' = scrollLeft
      /\ \A c \in raf : listeners[c.owner]
    ]_vars

\* cleanup has just been called in the middle of a momentum run
C3_Witness ==
  /\ last.op = "cleanup"
  /\ last.info = "momentum"
  /\ Live = {}
  /\ raf = {}
  /\ scrollLeft > 0
  /\ scrollLeft < MaxScroll

\* C4: while a momentum run or an alignment has a frame pending, and after
\* each of their frames, scrollLeft lies in [0, scrollWidth - clientWidth];
\* a step reaching a boundary leaves scrollLeft on it, and every alignment
\* target lies in the same range.
C4_ScrollLeftAndTargetInRange ==
  /\ (raf # {} \/ last.op \in {"step", "settle"}) =>
       /\ 0 <= scrollLeft
       /\ scrollLeft <= MaxScroll
  /\ (last.op = "step" /\ last.info = "boundary") =>
       scrollLeft \in {0, MaxScroll}
  /\ isConnected =>
       \A c \in raf :
         c.kind = "settle" => (0 <= c.target /\ c.target <= MaxScroll)
  /\ smooth # NoTarget => (0 <= smooth /\ smooth <= MaxScroll)

\* a step has just run into the end of the range, where the nearest item
\* starts beyond it
C4_Witness ==
  /\ last.op = "step"
  /\ last.info = "boundary"
  /\ scrollLeft = MaxScroll
  /\ Len(layout.itemOffsets) > 0
  /\ AlignTarget(World) > MaxScroll

\* the run of instance i with a release velocity that moves scrollLeft up
UpwardRun(i) ==
  \E c \in raf : c.owner = i /\ c.kind = "step" /\ c.velocity > 0

\* what alignToNearestItem leaves for instance i
Aligned(i) ==
  IF Len(layout.itemOffsets) = 0 THEN NoFrameOf(i)
  ELSE \/ NoFrameOf(i) /\ scrollLeft = ClampedTarget(World)
       \/ \E c \in raf : /\ c.owner = i
                          /\ c.kind = "settle"
                          /\ c.target = ClampedTarget(World)

\* C5 as stated: every frame of an upward run strictly increases scrollLeft,
\* and the run ends only at a frame that reached the maximum scroll position
\* or found the velocity exhausted, alignment being invoked then.
C5_StrictlyIncreasingEveryFrame ==
  [][ \A c \in raf :
        (c.kind = "step" /\ c.velocity > 0) =>
          /\ \A dt \in FrameDts :
               Frame(c, dt) => scrollLeft' > scrollLeft
          /\ ~UpwardRun(c.owner)' =>
               /\ \E dt \in FrameDts : Frame(c, dt)
               /\ last'.info \in {"boundary", "exhausted"}
               /\ Aligned(c.owner)'
    ]_vars

\* C5, amended: the first frame of an upward run leaves scrollLeft as it is,
\* and every later frame that continues the run strictly increases it; while
\* the container stays connected and neither a pointer-down nor a cleanup
\* intervenes, the run ends only at a frame that has brought scrollLeft to
\* the maximum scroll position or found the velocity exhausted, and that
\* frame invokes alignment.
C5_IncreasingAfterFirstFrame ==
  [][ \A c \in raf :
        (c.kind = "step" /\ c.velocity > 0) =>
          /\ \A dt \in FrameDts :
               (Frame(c, dt) /\ isConnected) =>
                 IF ~c.primed
                 THEN scrollLeft' = scrollLeft /\ UpwardRun(c.owner)'
                 ELSE IF UpwardRun(c.owner)'
                 THEN /\ scrollLeft' > scrollLeft
                      /\ scrollLeft' < MaxScroll
                      /\ c.velocity > deceleration * dt
                 ELSE /\ \/ scrollLeft' = MaxScroll
                         \/ c.velocity <= deceleration * dt
                      /\ last'.info \in {"boundary", "exhausted"}
                      /\ Aligned(c.owner)'
          /\ ~UpwardRun(c.owner)' =>
               \/ \E dt \in FrameDts : Frame(c, dt)
               \/ \E ev \in DownEvents : PointerDown(ev)
               \/ CleanupCall(c.owner)
               \/ DetachMomentumScroll
    ]_vars

\* an upward run one of whose later frames has just moved scrollLeft and
\* left the run going
C5_Witness ==
  /\ last.op = "step"
  /\ last.info = "advance"
  /\ UpwardRun(last.handle)
  /\ scrollLeft > 0
  /\ scrollLeft < MaxScroll

\* ------------------------------------------------------------------------
\* Properties of the night classifier, the sun-event lookup and the solar
\* times
\* ------------------------------------------------------------------------

\* C6: for every instant and every day entry holding both a sunrise and a
\* sunset, _isNightFromSunTimes answers night exactly when the instant is
\* not in [sunrise, sunset): before sunrise or from sunset on when
\* sunrise <= sunset, and the complement of [sunrise, sunset) when
\* sunrise > sunset.
C6_NightOutsideSunriseToSunset ==
  probe.night # "pending" =>
    /\ probe.night \in {"true", "false"}
    /\ (probe.night = "true") <=>
         ~(probe.sunrise <= probe.timestamp /\ probe.timestamp < probe.sunset)
    /\ probe.sunrise <= probe.sunset =>
         ((probe.night = "true") <=>
            (probe.timestamp < probe.sunrise \/ probe.timestamp >= probe.sunset))

\* the instant of sunset itself is classified, and is night
C6_Witness ==
  /\ probe.night = "true"
  /\ probe.sunrise < probe.sunset
  /\ probe.timestamp = probe.sunset

\* the slot of item i of the rendered forecast: from its own timestamp to
\* the next sample's, or one hour long for the last sample
SlotStart(i) == forecast[i].datetime
SlotEnd(i) ==
  IF i < Len(forecast) THEN forecast[i + 1].datetime ELSE SlotStart(i) + Hour
SlotTimes(i) == TimesOf(sunTimesByDay, SlotStart(i))

\* C7: night is never concluded from missing data.  An explicit is_daytime
\* boolean on the item (hourly list) or on the entity (header) decides the
\* result; without it the result is daytime when there are no coordinates,
\* no entry for the day, or no sunrise or no sunset.
C7_MissingDataIsDaytime ==
  /\ \A i \in 1..Len(rendered) :
       /\ forecast[i].is_daytime = "true" => ~rendered[i].night
       /\ forecast[i].is_daytime = "false" => rendered[i].night
       /\ ( /\ forecast[i].is_daytime = "none"
            /\ \/ sunCoordinates # "valid"
               \/ ~SlotTimes(i).has
               \/ SlotTimes(i).sunrise = Undefined
               \/ SlotTimes(i).sunset = Undefined )
          => ~rendered[i].night
  /\ header.attribute = "true" => header.isDaytime
  /\ header.attribute = "false" => ~header.isDaytime
  /\ ( /\ header.attribute = "none"
       /\ \/ header.coords # "valid"
          \/ getTimes(eph, header.now).sunrise = NaN
          \/ getTimes(eph, header.now).sunset = NaN )
     => header.isDaytime

\* an item without the flag, on a day whose entry has no sunrise, is drawn
\* as day although the coordinates are there; so is the header
C7_Witness ==
  /\ sunCoordinates = "valid"
  /\ \E i \in 1..Len(rendered) :
       /\ forecast[i].is_daytime = "none"
       /\ SlotTimes(i).has
       /\ SlotTimes(i).sunrise = Undefined
       /\ ~rendered[i].night
  /\ \E i \in 1..Len(rendered) :
       forecast[i].is_daytime = "false" /\ rendered[i].night
  /\ header.attribute = "none"
  /\ header.coords = "valid"
  /\ getTimes(eph, header.now).sunrise = NaN
  /\ header.isDaytime

\* C8: with the solar times of the calendar day of the slot's start,
\* _getSunEventForHour returns sunrise if start <= sunrise < end, otherwise
\* sunset if start <= sunset < end, otherwise nothing; with both events in
\* one slot only sunrise is returned, and an event exactly at end is not
\* reported for that slot.
C8_SunEventOfSlot ==
  showSunTimes =>
    \A i \in 1..Len(rendered) :
      LET times == SlotTimes(i)
          inSlot(t) == t # Undefined /\ SlotStart(i) <= t /\ t < SlotEnd(i)
      IN  /\ rendered[i].sunEvent =
               IF times.has /\ inSlot(times.sunrise)
               THEN [type |-> "sunrise", timestamp |-> times.sunrise]
               ELSE IF times.has /\ inSlot(times.sunset)
               THEN [type |-> "sunset", timestamp |-> times.sunset]
               ELSE NoEvent
          /\ rendered[i].sunEvent.type # "none" =>
               rendered[i].sunEvent.timestamp # SlotEnd(i)

\* a slot holding both events shows the sunrise, and a sunset exactly at the
\* end of a slot is shown by the next slot only
C8_Witness ==
  /\ showSunTimes
  /\ \E i \in 1..Len(rendered) :
       /\ SlotTimes(i).has
       /\ SlotStart(i) <= SlotTimes(i).sunrise
       /\ SlotTimes(i).sunrise < SlotTimes(i).sunset
       /\ SlotTimes(i).sunset < SlotEnd(i)
       /\ rendered[i].sunEvent.type = "sunrise"

\* the calendar days the forecast covers with 24 contiguous one-hour slots
FullDays ==
  { d \in DayKeys(forecast) :
      \A h \in 0..23 :
        \E i \in 1..Len(forecast) :
          SlotStart(i) = d * Day + h * Hour /\ SlotEnd(i) = SlotStart(i) + Hour }

\* how many slots of day d show an event of the type
Reports(d, type) ==
  Cardinality({ i \in 1..Len(rendered) :
                  /\ formatDayKey(SlotStart(i)) = d
                  /\ rendered[i].sunEvent.type = type })

HasBothEvents(d) ==
  /\ d \in DOMAIN sunTimesByDay
  /\ sunTimesByDay[d].has
  /\ sunTimesByDay[d].sunrise # Undefined
  /\ sunTimesByDay[d].sunset # Undefined

\* C9 as stated: over the slots of a fully covered day whose entry holds a
\* sunrise and a sunset, the lookup reports sunrise exactly once and sunset
\* exactly once.
C9_EachEventOnce ==
  showSunTimes =>
    \A d \in FullDays :
      HasBothEvents(d) =>
        Reports(d, "sunrise") = 1 /\ Reports(d, "sunset") = 1

\* C9, amended: over the slots of a fully covered day whose entry holds a
\* sunrise and a sunset, sunrise is reported exactly once if the stored
\* sunrise falls on that day, and sunset exactly once if the stored sunset
\* falls on that day and not in the slot of the sunrise; an event that does
\* not meet its condition is not reported at all.
C9_EachEventOnceWhenOnDayAndApart ==
  showSunTimes =>
    \A d \in FullDays :
      HasBothEvents(d) =>
        LET sunrise == sunTimesByDay[d].sunrise
            sunset == sunTimesByDay[d].sunset
            sunriseOnDay == formatDayKey(sunrise) = d
            sunsetOnDay == formatDayKey(sunset) = d
            sameSlot == sunriseOnDay /\ sunsetOnDay
                          /\ sunrise \div Hour = sunset \div Hour
        IN  /\ Reports(d, "sunrise") = IF sunriseOnDay THEN 1 ELSE 0
            /\ Reports(d, "sunset") =
                 IF sunsetOnDay /\ ~sameSlot THEN 1 ELSE 0

\* a fully covered day with sunrise and sunset in different slots of it,
\* each shown once
C9_Witness ==
  /\ showSunTimes
  /\ \E d \in FullDays :
       /\ HasBothEvents(d)
       /\ formatDayKey(sunTimesByDay[d].sunset) = d
       /\ sunTimesByDay[d].sunrise \div Hour # sunTimesByDay[d].sunset \div Hour
       /\ Reports(d, "sunrise") = 1
       /\ Reports(d, "sunset") = 1

\* the sun does not cross the horizon on the solar day nearest to the
\* midnight that begins day d
PolarAt(d) == hourAngle(eph, julianCycle(eph, d * Day)) = NaN

\* C10: when the solar computation has no valid instant for sunrise or
\* sunset, the event is stored as absent: the day entry exists and holds no
\* invalid number, the night classifier answers unknown for the day (the
\* icon stays a day icon) and the lookup shows no marker for the absent
\* event.
C10_PolarEventIsAbsent ==
  sunCoordinates = "valid" =>
    /\ DOMAIN sunTimesByDay = DayKeys(forecast)
    /\ \A d \in DOMAIN sunTimesByDay :
         /\ sunTimesByDay[d].has
         /\ sunTimesByDay[d].sunrise # NaN
         /\ sunTimesByDay[d].sunset # NaN
         /\ PolarAt(d) =>
              /\ sunTimesByDay[d].sunrise = Undefined
              /\ sunTimesByDay[d].sunset = Undefined
    /\ \A i \in 1..Len(rendered) :
         /\ (SlotTimes(i).sunrise = Undefined \/ SlotTimes(i).sunset = Undefined)
              => /\ isNightFromSunTimes(sunTimesByDay, SlotStart(i)) = "undefined"
                 /\ forecast[i].is_daytime = "none" => ~rendered[i].night
         /\ SlotTimes(i).sunrise = Undefined =>
              rendered[i].sunEvent.type # "sunrise"
         /\ SlotTimes(i).sunset = Undefined =>
              rendered[i].sunEvent.type # "sunset"

\* a forecast reaching from a day with sunrise and sunset into a polar day:
\* the polar day has its entry, without events and without markers
C10_Witness ==
  /\ sunCoordinates = "valid"
  /\ showSunTimes
  /\ \E i \in 1..Len(rendered) : rendered[i].sunEvent.type = "sunset"
  /\ \E i \in 1..Len(rendered) :
       /\ PolarAt(formatDayKey(SlotStart(i)))
       /\ SlotTimes(i).has
       /\ SlotTimes(i).sunrise = Undefined
       /\ SlotTimes(i).sunset = Undefined
       /\ rendered[i].sunEvent = NoEvent
       /\ ~rendered[i].night

\* ------------------------------------------------------------------------
\* Properties of the card
\* ------------------------------------------------------------------------
NoSolarTimes ==
  /\ DOMAIN sunTimesByDay = {}
  /\ ~showSunTimes
  /\ \A i \in DOMAIN rendered : rendered[i].sunEvent = NoEvent

\* C11: _getLocationCoordinates returns a pair whose latitude is a finite
\* number in [-90, 90] and whose longitude is one in [-180, 180], or
\* undefined; when there is no configuration or either value used is
\* missing, not finite or out of range, the pair is absent, the coordinate
\* cache is cleared, a header without a daytime attribute shows daytime and
\* the hourly list computes no solar times.
C11_CoordinatesValidOrAbsent ==
  /\ location.result.has =>
       /\ location.result.latitude \in -90..90
       /\ location.result.longitude \in -180..180
  /\ (\/ ~location.given.config
      \/ location.given.latitude # "ok"
      \/ location.given.longitude # "ok") =>
       /\ ~location.result.has
       /\ location.cacheKey = NoKey
       /\ ~location.cache.has
       /\ header.isDaytime
       /\ NoSolarTimes

\* the card has rendered with a latitude beyond the pole and a longitude
\* on the map
C11_Witness ==
  /\ Len(forecast) > 0
  /\ location.given.config
  /\ location.given.latitude = "outofrange"
  /\ location.given.longitude = "ok"
  /\ ~location.result.has

RenderedContainers(k) == {k.rendered[t] : t \in ForecastTypes} \ {NoElement}

CleanupThenAttach(log, old, new) ==
  \E i \in DOMAIN log : \E j \in DOMAIN log :
    /\ i < j
    /\ log[i] = [op |-> "cleanup", el |-> old]
    /\ log[j] = [op |-> "attach", el |-> new]

\* C12: for each forecast type the recorded element and the recorded cleanup
\* are set or unset together; after every updated() that runs with _config
\* and _hass set the engines attached are exactly those of the containers
\* now rendered, each recorded for its type, and where a container replaced
\* a recorded one the old one's cleanup was called before the new one was
\* attached; after disconnectedCallback no engine is attached.
C12_EngineFollowsRenderedContainer ==
  [][ /\ \A t \in ForecastTypes :
           (card'.momentumElement[t] = NoElement)
             <=> (card'.momentumCleanup[t] = NoElement)
      /\ (card'.op = "updated" /\ card'.config /\ card'.hass) =>
           /\ card'.attached = RenderedContainers(card')
           /\ \A t \in ForecastTypes :
                /\ card'.momentumElement[t] = card'.rendered[t]
                /\ (/\ card.momentumElement[t] # NoElement
                    /\ card'.rendered[t] # NoElement
                    /\ card'.rendered[t] # card.momentumElement[t]) =>
                     CleanupThenAttach(card'.log, card.momentumElement[t],
                                       card'.rendered[t])
      /\ card'.op = "disconnectedCallback" => card'.attached = {}
    ]_vars

\* updated() has just moved the daily engine to a new container while the
\* hourly one stayed where it was
C12_Witness ==
  /\ card.op = "updated"
  /\ card.config /\ card.hass
  /\ card.rendered["hourly"] # NoElement
  /\ \E old \in Elements :
       card.log = <<[op |-> "cleanup", el |-> old],
                    [op |-> "attach", el |-> card.rendered["daily"]]>>

\* ------------------------------------------------------------------------
\* Properties of the engine in use
\* ------------------------------------------------------------------------
\* a drag, momentum or settle cycle of an attached engine is under way
CycleActive == \E i \in Live : Phase(i) # "idle"

\* C13: while a drag, momentum or settle cycle is active on the container,
\* a day selection does not set the container's scroll position (it starts
\* no scroll and moves nothing) unless the engine has been stopped first.
C13_EngineIsOnlyScrollWriter ==
  [][ (last'.op = "daySelected" /\ CycleActive) =>
        \/ ~CycleActive'
        \/ (smooth' = smooth /\ scrollLeft' = scrollLeft)
    ]_vars

\* a momentum run of engine i has just been started with the velocity v,
\* clamped in magnitude to maxVelocity and with its sign kept
MomentumStarted(i, v) ==
  \E c \in raf' :
    /\ FramesOf(raf', i) = {c}
    /\ frame'[i] = c.id
    /\ c.kind = "step" /\ ~c.primed
    /\ Abs(c.velocity) = Min(Abs(v), maxVelocity)
    /\ Sign(c.velocity) = Sign(v)
    /\ "momentum" \in classes'

\* engine i, alone on the container, has just aligned it: nothing to do
\* without items, a jump onto a target within tolerance, a smooth scroll
\* towards the target with a settle frame watching it otherwise
AlignmentInvoked(i) ==
  IF Len(layout.itemOffsets) = 0 THEN NoFrameOf(i)' /\ scrollLeft' = scrollLeft
  ELSE IF Abs(scrollLeft - ClampedTarget(World)) <= SettleTolerance
  THEN NoFrameOf(i)' /\ scrollLeft' = ClampedTarget(World)
  ELSE /\ \E c \in raf' :
            /\ FramesOf(raf', i) = {c}
            /\ c.kind = "settle"
            /\ c.target = ClampedTarget(World)
       /\ smooth' = ClampedTarget(World)

\* what a pointer-up or pointer-cancel does to the only engine i of the
\* container while its drag is active; momentum needs overflow if asked so
ReleaseOutcome(i, ev, needsOverflow) ==
  IF ev.pointerId # drag[i].pointerId
  THEN drag'[i] = drag[i] /\ FramesOf(raf', i) = FramesOf(raf, i)
                          /\ scrollLeft' = scrollLeft
  ELSE /\ drag'[i] = createDragState
       /\ "grabbing" \notin classes'
       /\ drag[i].hasMoved =>
            IF Abs(drag[i].velocity) <= threshold THEN AlignmentInvoked(i)
            ELSE IF needsOverflow /\ MaxScroll <= 0
            THEN NoFrameOf(i)' /\ scrollLeft' = scrollLeft
                               /\ smooth' = smooth
            ELSE MomentumStarted(i, drag[i].velocity)

\* C15 as stated: on pointer-up or pointer-cancel of the active pointer
\* after the drag passed the activation threshold a release faster than
\* threshold starts a momentum run with the velocity clamped to maxVelocity
\* and its sign kept, a slower one aligns at once; either way the drag state
\* is reset, and a pointer-up of another pointer changes nothing.
C15_ReleaseStartsMomentumOrAligns ==
  [][ \A i \in Instances : \A ev \in EndEvents :
        (Live = {i} /\ drag[i].active /\ PointerEnd(ev)) =>
          ReleaseOutcome(i, ev, FALSE)
    ]_vars

\* C15, amended: the momentum run starts only if the container still
\* overflows (scrollWidth > clientWidth) at the release; if it does not, a
\* release faster than threshold just stops the engine: no run, no
\* alignment. The rest is as stated.
C15_ReleaseStartsMomentumIfOverflowing ==
  [][ \A i \in Instances : \A ev \in EndEvents :
        (Live = {i} /\ drag[i].active /\ PointerEnd(ev)) =>
          ReleaseOutcome(i, ev, TRUE)
    ]_vars

\* a drag has just been released faster than maxVelocity: the run's first
\* frame is pending with the clamped velocity
C15_Witness ==
  \E i \in Live : \E c \in raf :
    /\ c.owner = i /\ c.kind = "step" /\ ~c.primed
    /\ Abs(c.velocity) = maxVelocity
    /\ ~drag[i].active
    /\ isConnected

\* the pending frame of engine i's momentum run, if there is one
StepFrames(frames, i) == {c \in frames : c.owner = i /\ c.kind = "step"}
InMomentum(i) == StepFrames(raf, i) # {}

\* C16 as stated: at every animation frame of a momentum run the magnitude
\* of the velocity strictly decreases, as long as the run goes on.
C16_VelocityDecreasesEveryFrame ==
  [][ \A c \in raf : \A dt \in FrameDts :
        (c.kind = "step" /\ Frame(c, dt)) =>
          \A n \in StepFrames(raf', c.owner) :
            Abs(n.velocity) < Abs(c.velocity)
    ]_vars

\* the frames of a run after its first take deceleration * dt off the
\* velocity's magnitude and keep its direction; the first only notes the time
DecaysAfterFirstFrame ==
  [][ \A c \in raf : \A dt \in FrameDts :
        (c.kind = "step" /\ Frame(c, dt)) =>
          \A n \in StepFrames(raf', c.owner) :
            IF ~c.primed THEN n.velocity = c.velocity /\ n.primed
            ELSE /\ n.primed
                 /\ Abs(n.velocity) = Abs(c.velocity) - deceleration * dt
                 /\ Abs(n.velocity) < Abs(c.velocity)
                 /\ Sign(n.velocity) = Sign(c.velocity)
    ]_vars

\* C16, amended: the first animation frame of a momentum run leaves the
\* velocity as it is and every later frame that continues the run strictly
\* decreases its magnitude, so that, as long as animation frames keep being
\* delivered, every run ends after finitely many frames.
C16_VelocityDecaysAndRunEnds ==
  /\ DecaysAfterFirstFrame
  /\ \A i \in Instances : InMomentum(i) ~> ~InMomentum(i)

\* a later frame of a run has just taken something off the velocity and
\* left the run going
C16_Witness ==
  /\ last.op = "step"
  /\ last.info = "advance"
  /\ \E c \in raf : /\ c.owner = last.handle
                    /\ c.kind = "step"
                    /\ c.primed
                    /\ Abs(c.velocity) < maxVelocity
                    /\ Abs(c.velocity) > threshold

\* C17: while the drag of the container's engine is active for a pointer, a
\* pointer-down of another pointer leaves the drag state (pointerId, startX,
\* scrollLeft at start, hasMoved, velocity) as it is.
C17_SecondPointerDownIgnored ==
  [][ \A i \in Instances : \A ev \in DownEvents :
        (/\ Live = {i}
         /\ drag[i].active
         /\ ev.pointerId # drag[i].pointerId
         /\ PointerDown(ev)) => drag'[i] = drag[i]
    ]_vars

C19_PointerDownCancelsAnimation ==
  [][ \A i \in Instances : \A ev \in DownEvents :
        (/\ Live = {i}
         /\ FramesOf(raf, i) # {}
         /\ PointerDown(ev)
         /\ drag'[i].active) =>
          /\ FramesOf(raf', i) = {}
          /\ frame'[i] = 0
          /\ "momentum" \notin classes'
          /\ scrollLeft' = scrollLeft
    ]_vars

\* a pointer-down has just started a drag in the middle of an animation
C19_Witness ==
  /\ last.op = "down"
  /\ last.info = "interrupted"
  /\ Live = {last.handle}
  /\ drag[last.handle].active
  /\ FramesOf(raf, last.handle) = {}

\* a pointer-down that can start a drag
Qualifies(ev) ==
  /\ ev.button = 0
  /\ ev.pointerType \in {"mouse", "pen"}
  /\ isConnected
  /\ MaxScroll > 0

\* C20: the drag of an engine becomes active only at a pointer-down of the
\* primary button of a mouse or pen on a connected container that overflows;
\* any other pointer-down (touch, another button, container disconnected or
\* without overflow) leaves the drag state as it is and adds no grabbing
\* class.
C20_DragStartsOnlyOnQualifiedPointerDown ==
  [][ \A i \in Instances :
        /\ (drag'[i].active /\ ~drag[i].active) =>
             \E ev \in DownEvents : Qualifies(ev) /\ PointerDown(ev)
        /\ \A ev \in DownEvents :
             (listeners[i] /\ ~Qualifies(ev) /\ PointerDown(ev)) =>
               /\ drag'[i] = drag[i]
               /\ "grabbing" \in classes' => "grabbing" \in classes
    ]_vars

\* a primary-button mouse or pen pointer-down has just started a drag on a
\* connected, overflowing container
C20_Witness ==
  /\ last.op = "down"
  /\ last.info = "started"
  /\ isConnected
  /\ MaxScroll > 0
  /\ drag[last.handle].active
  /\ "grabbing" \in classes

\* engine i waits for its pointer to cross the activation threshold
Pressed(i) == drag[i].active /\ ~drag[i].hasMoved

\* a move of the pointer engine i waits for, more than 4 px from startX
CrossesThreshold(i, ev) ==
  /\ ev.pointerId = drag[i].pointerId
  /\ Abs(ev.clientX - drag[i].startX) > DRAG_ACTIVATION_THRESHOLD

\* what a pointer event leaves alone while the gesture may still be a click:
\* no dragging or momentum class added, scrollLeft and the browser's scroll
\* untouched, no pointer captured, no preventDefault, no frame requested
NoDragEffect(i) ==
  /\ (classes' \ classes) \cap {"dragging", "momentum"} = {}
  /\ scrollLeft' = scrollLeft
  /\ smooth' = smooth
  /\ capture' \in {capture, 0}
  /\ last'.op # "move"
  /\ FramesOf(raf', i) = {}

\* C21: from the pointer-down of pointer p until the first move of p more
\* than 4 px from startX, no pointer event makes the container's engine add
\* a dragging or momentum class, change scrollLeft, capture a pointer or call
\* preventDefault, and the engine goes on waiting for p; a pointer-up or
\* pointer-cancel of p before such a move resets the drag and starts neither
\* momentum nor alignment.
C21_NoEffectBeforeThreshold ==
  [][ \A i \in Instances :
        (Live = {i} /\ Pressed(i)) =>
          /\ \A ev \in DownEvents :
               PointerDown(ev) => NoDragEffect(i) /\ drag'[i] = drag[i]
          /\ \A ev \in MoveEvents :
               (~CrossesThreshold(i, ev) /\ PointerMove(ev)) =>
                 NoDragEffect(i) /\ drag'[i] = drag[i]
          /\ \A ev \in EndEvents :
               PointerEnd(ev) =>
                 /\ NoDragEffect(i)
                 /\ drag'[i] = IF ev.pointerId = drag[i].pointerId
                               THEN createDragState ELSE drag[i]
    ]_vars

\* C22: each move of the dragging pointer handled from activation on leaves
\* the scroll position it produced as the sample for the next one; such a
\* move with a positive time delta to the previous sample stores the
\* velocity (scrollLeft change since that sample) / (time delta), any other
\* (the move that crosses the threshold, a zero or negative delta) leaves
\* the stored velocity as it is. A drag starts with velocity 0, and the
\* stored velocity is the one of the release: none of 0 starts a run.
C22_VelocityFromLastPositiveSample ==
  [][ \A i \in Instances :
        Live = {i} =>
          /\ \A ev \in MoveEvents :
               (/\ drag[i].active
                /\ ev.pointerId = drag[i].pointerId
                /\ PointerMove(ev)) =>
                 IF drag'[i].hasMoved
                 THEN /\ drag'[i].lastScrollLeft = scrollLeft'
                      /\ IF drag[i].hasMoved /\ ev.dt > 0
                         THEN drag'[i].velocity * ev.dt
                                = scrollLeft' - drag[i].lastScrollLeft
                         ELSE drag'[i].velocity = drag[i].velocity
                 ELSE drag'[i].velocity = drag[i].velocity
          /\ \A ev \in DownEvents :
               (Qualifies(ev) /\ PointerDown(ev)) =>
                 drag'[i].velocity = 0 /\ ~drag'[i].hasMoved
          /\ \A ev \in EndEvents :
               (/\ drag[i].hasMoved
                /\ ev.pointerId = drag[i].pointerId
                /\ PointerEnd(ev)) =>
                 /\ drag[i].velocity = 0 => StepFrames(raf', i) = {}
                 /\ \A c \in StepFrames(raf', i) :
                      /\ Sign(c.velocity) = Sign(drag[i].velocity)
                      /\ Abs(c.velocity) = Min(Abs(drag[i].velocity),
                                               maxVelocity)
    ]_vars

\* a move without a positive time delta has just been handled in the middle
\* of a drag and the velocity of the sample before it is still stored
C22_Witness ==
  /\ last.op = "move"
  /\ last.info = "kept"
  /\ Live = {last.handle}
  /\ drag[last.handle].hasMoved
  /\ drag[last.handle].velocity # 0
  /\ drag[last.handle].lastScrollLeft = scrollLeft

\* engine i is idle in the sense of the alignment: no frame pending, the
\* momentum and dragging classes off
Idle(i) == NoFrameOf(i) /\ classes \cap {"momentum", "dragging"} = {}

\* what an alignment of engine i that has just been invoked leaves: idle at
\* once without items or with scrollLeft put on the clamped target it was
\* within tolerance of, else a settle frame for the clamped target of the
\* nearest item and the browser scrolling towards it
AlignmentStarted(i) ==
  IF Len(layout.itemOffsets) = 0 THEN Idle(i)'
  ELSE LET target == ClampedTarget(World)'
       IN  /\ 0 <= target /\ target <= MaxScroll
           /\ IF Abs(scrollLeft' - target) <= SettleTolerance
              THEN Idle(i)' /\ scrollLeft' = target
              ELSE /\ \E c \in raf' :
                        /\ FramesOf(raf', i) = {c}
                        /\ c.kind = "settle"
                        /\ c.target = target
                   /\ "momentum" \in classes'
                   /\ smooth' = target

\* the frames of an alignment: idle when the container has left the
\* document or scrollLeft is within tolerance of the target, which it is put
\* on; else the next frame is awaited
SettleFrameOutcome(c) ==
  IF ~isConnected THEN Idle(c.owner)'
  ELSE IF Abs(scrollLeft - c.target) <= SettleTolerance
  THEN Idle(c.owner)' /\ scrollLeft' = c.target
  ELSE /\ \E n \in raf' :
            /\ FramesOf(raf', c.owner) = {n}
            /\ n.kind = "settle"
            /\ n.target = c.target
       /\ scrollLeft' = scrollLeft

AlignmentSteps ==
  [][ /\ \A c \in raf :
           (c.kind = "settle" /\ \E dt \in FrameDts : Frame(c, dt)) =>
             SettleFrameOutcome(c)
      /\ \A i \in Instances :
           (/\ Live = {i}
            /\ isConnected
            /\ \/ last'.op = "step" /\ last'.info \in {"boundary", "exhausted"}
               \/ /\ drag[i].hasMoved
                  /\ Abs(drag[i].velocity) <= threshold
                  /\ \E ev \in EndEvents :
                       ev.pointerId = drag[i].pointerId /\ PointerEnd(ev))
             => AlignmentStarted(i)
    ]_vars

\* C23: an alignment leaves the engine idle at once when nothing matches the
\* snap selector or scrollLeft is within 0.5 px of the clamped target of the
\* nearest item, and else idle at the first frame that finds scrollLeft
\* within 0.5 px of the target (and puts it there) or the container out of
\* the document; and once started it always comes to that: a settling engine
\* gets idle in the end.
C23_AlignmentReturnsToIdle ==
  /\ AlignmentSteps
  /\ \A i \in Instances : SettleFramePending(i) ~> Idle(i)

\* ------------------------------------------------------------------------
\* Properties of the day shift
\* ------------------------------------------------------------------------
\* the shift the rule gives: by the sunrise if it is there and off the key's
\* day, else by the sunset
ShiftRule(key, sunrise, sunset) ==
  IF sunrise # Undefined /\ formatDayKey(sunrise) < key THEN 1
  ELSE IF sunrise # Undefined /\ formatDayKey(sunrise) > key THEN -1
  ELSE IF sunset # Undefined /\ formatDayKey(sunset) < key THEN 1
  ELSE IF sunset # Undefined /\ formatDayKey(sunset) > key THEN -1
  ELSE 0

\* the events of the computation at base
EventsAt(e, base) ==
  [has |-> TRUE, sunrise |-> toTimestamp(getTimes(e, base).sunrise),
   sunset |-> toTimestamp(getTimes(e, base).sunset)]

\* the shift of the first computation for the day of date
FirstShift(e, date) ==
  LET key == formatDayKey(date)
      first == EventsAt(e, key * Day)
  IN  ShiftRule(key, first.sunrise, first.sunset)

\* C24: the day shift is +1 for a computed sunrise on a day before the key,
\* -1 for one on a later day, and follows the sunset by the same rule only
\* when the sunrise is absent or on the key's day; the entry stored for a
\* day holds the events computed at its local midnight if the shift is 0 and
\* else those computed once more, shift days from there, whatever day they
\* fall on.
C24_DayShiftBySunriseThenSunset ==
  probe.done =>
    /\ probe.shift = ShiftRule(probe.key, probe.sunrise, probe.sunset)
    /\ LET base == formatDayKey(probe.date) * Day
           shift == FirstShift(probe.e, probe.date)
       IN  probe.entry = EventsAt(probe.e, base + shift * Day)

\* the shift has followed a sunset on the next day, the sunrise being on the
\* key's day, and the entry computed is a shifted one whose sunrise is not
\* on the day it is stored for
C24_Witness ==
  /\ probe.done
  /\ probe.shift = -1
  /\ probe.sunrise # Undefined
  /\ formatDayKey(probe.sunrise) = probe.key
  /\ formatDayKey(probe.sunset) > probe.key
  /\ FirstShift(probe.e, probe.date) # 0
  /\ probe.entry.sunrise # Undefined
  /\ formatDayKey(probe.entry.sunrise) # formatDayKey(probe.date)

\* ------------------------------------------------------------------------
\* Properties of the registry and of the engine's states
\* ------------------------------------------------------------------------
\* C25: whatever enableMomentumScroll, cleanup-handle and
\* detachMomentumScroll calls have been made on the container, handles of
\* engines cleaned up before included, the registry holds an entry for the
\* container exactly when an engine has its listeners on it, that engine is
\* the registered one, and no two engines have listeners on the container.
C25_RegistryMatchesListeners ==
  /\ Cardinality(Live) <= 1
  /\ (stateMap # 0) <=> (Live # {})
  /\ stateMap # 0 => Live = {stateMap}

C27_DragExcludesAnimation ==
  /\ \A i \in Live : \A j \in Live :
       ~(drag[i].active /\ FramesOf(raf, j) # {})
  /\ "momentum" \in classes => \E i \in Live : FramesOf(raf, i) # {}

\* a momentum run has just ended in an alignment that takes its time: the
\* momentum class is still on, the settle frame pending, no drag active
C27_Witness ==
  /\ last.op = "step"
  /\ last.info = "exhausted"
  /\ Live = {last.handle}
  /\ "momentum" \in classes
  /\ \E c \in FramesOf(raf, last.handle) : c.kind = "settle"
  /\ ~drag[last.handle].active

\* the classes the engine puts on the container
EngineClasses == {"grabbing", "dragging", "momentum"}

\* C28: a step in which an engine's cleanup runs (its listeners leave the
\* container), in whatever state of a drag or an animation, ends with none
\* of the engine's classes on the container and no pointer captured, and a
\* step that attaches a new engine starts from a container without them.
C28_CleanupLeavesContainerClean ==
  [][/\ \A i \in Instances :
          listeners[i] /\ ~listeners'[i] =>
            /\ classes' \cap EngineClasses = {}
            /\ capture' = 0
     /\ (last'.op = "attach" /\ last'.info = "new") =>
          classes \cap EngineClasses = {}]_vars

\* C30: a pointer-down that does not start a drag (touch, another button
\* than the primary one, or a container without overflow) leaves the
\* container's engine as it was: its drag state, its pending frame of a
\* momentum run or of a settling, and the container's dragging and momentum
\* classes.
C30_RefusedPointerDownChangesNothing ==
  [][ \A i \in Instances : \A ev \in DownEvents :
        (/\ Live = {i}
         /\ isConnected
         /\ \/ ev.button # 0
            \/ ev.pointerType = "touch"
            \/ MaxScroll <= 0
         /\ PointerDown(ev)) =>
          /\ drag'[i] = drag[i]
          /\ FramesOf(raf', i) = FramesOf(raf, i)
          /\ frame'[i] = frame[i]
          /\ classes' \cap {"dragging", "momentum"}
               = classes \cap {"dragging", "momentum"}
    ]_vars

\* the subscription the card holds for the chip at index k, if any
Registered(k) ==
  {s \in templates.connection :
     /\ k \in DOMAIN templates.templateSubscriptions
     /\ templates.templateSubscriptions[k] = "promise"
     /\ s.index = k
     /\ ~s.tornDown}

\* the value shown at index k is one the template of the subscription
\* registered for k can have given
FromRegistered(k) ==
  \E s \in Registered(k) :
    templates.templateChipValues[k].display \in
         {m.result : m \in TemplateMessages(s.template)}

\* C29: a message of a superseded subscription (one torn down by a refresh
\* or by the disconnection, its unsubscribe still to come) leaves the values
\* of the template chips as they are, and in every reachable state a
\* rendered value shown at an index comes from the subscription registered
\* for that index.
C29_SupersededResultsIgnored ==
  /\ [](\A k \in DOMAIN templates.templateChipValues :
          ~templates.templateChipValues[k].missing => FromRegistered(k))
  /\ [][ \A s \in templates.connection :
           \A message \in TemplateMessages(s.template) :
             (s.tornDown /\ TemplateResult(s, message)) =>
               templates'.templateChipValues = templates.templateChipValues
       ]_vars


====
